---------------------------- MODULE Spec2Model ----------------------------
(***************************************************************************)
(* A state-machine model of the cfile library: the generic decode buffer   *)
(* (cfile_buffer.c), the per-codec backends (cfile_normal.c, cfile_gzip.c, *)
(* cfile_bzip2.c, cfile_xz.c, cfile_lzo.c) and the dispatch entry points   *)
(* and growable line reader of cfile.c.                                    *)
(*                                                                         *)
(* Bytes are integers 0..255.  The codec libraries (stdio, zlib, bzlib,    *)
(* liblzma) are collaborators outside the repository: they are modelled    *)
(* by their documented call contracts.                                     *)
(***************************************************************************)
EXTENDS Integers, Sequences, FiniteSets, TLC

VARIABLES
    bp,       \* cfile_buffer: [buffer, bufsize, buflen, bufpos]
    refill,   \* private state of the read_into_buffer callback
    bcall,    \* the caller of the buffer: capacity used and results so far
    hd,       \* the stream handle and its backend private state
    disk,     \* the bytes stored in the file the handle is opened on
    env,      \* OS files and codec sessions owned by the handle; the build
    usr,      \* the calling program: its data and its destination memory
    last,     \* the last call made through a dispatch entry point
    gl,       \* a caller of cfgetline: its line array, maxline and position
    opn,      \* a call of an open routine: its arguments, steps and result
    fs,       \* a compressed file as size() sees it: attribute, times, length
    xw        \* the backward walk of xz_size over the records of a file

bufVars == <<bp, refill, bcall>>

hdVars == <<hd, disk, env, usr, last>>

auxVars == <<opn, fs, xw>>

vars == <<bp, refill, bcall, hd, disk, env, usr, last, gl, opn, fs, xw>>

(***************************************************************************)
(* Bounds of the model.                                                    *)
(***************************************************************************)
\* longest decoded stream enumerated
MaxData == 4
\* largest capacity passed to a line read
MaxCap == 4
\* capacity of a decode buffer (BZIP2_BUFFER_SIZE, XZ_BUFFER_SIZE and
\* LZO_BUFFER_SIZE in the source, scaled down so that refills happen)
BufSize == 3
\* calls made on one buffer after which the caller stops
MaxCalls == 7
\* longest data the calling program writes and reads back
MaxFile == 3
\* largest item size of a block read or write
MaxSize == 2
\* bytes a line array may grow by before the allocator gives out
MaxGrow == 3
\* tokens a file being written may hold before the caller stops printing
MaxOut == 4
\* pieces a file name is put together from
MaxPieces == 3
\* seconds the clock runs while a file is sized
MaxClock == 3
\* largest uncompressed size of one xz stream
MaxUSize == 2
\* calls of buf_fread made on one buffer
MaxReads == 2
\* most words of stream padding after a stream
MaxPad == 3
\* words of an index read by one fread (max_data_read in the source,
\* scaled down so that an index takes more than one read)
ChunkWords == 2
\* times a file is rewritten while it is sized
MaxRewrites == 1
\* size() calls made on one file
MaxSizeCalls == 3

(***************************************************************************)
(* Bytes.                                                                  *)
(***************************************************************************)
\* the line-end byte '\n'
NL == 10
\* the byte '\r'
CR == 13
\* the capacity cfgetline takes when handed 0
DefaultMaxline == 80
\* value of a memory cell never written
Uninit == 0 - 1
\* sizeof(char *)
SizeofPtr == 8
\* LZMA_STREAM_HEADER_SIZE, in 32-bit words
HeaderWords == 3
\* file lengths are counted in units of 2^16 bytes; 2^31 and 2^32 bytes,
\* the range of a 32-bit int, are these numbers of units
TwoTo31 == 32768
TwoTo32 == 65536

\* the byte values streams are built from: 'a', '\n' and 0xFF
Bytes == {97, NL, 255}

RECURSIVE SeqsUpTo(_, _)
SeqsUpTo(S, n) ==
    IF n = 0 THEN {<<>>}
    ELSE LET shorter == SeqsUpTo(S, n - 1)
         IN  shorter \cup {Append(s, x) : s \in {t \in shorter : Len(t) = n - 1}, x \in S}

RECURSIVE Concat(_)
Concat(ss) == IF ss = <<>> THEN <<>> ELSE Head(ss) \o Concat(Tail(ss))

Min(a, b) == IF a <= b THEN a ELSE b

\* the text "ab\ncd" of the buffer's line-read example, letters alike
ExampleStream == <<97, 97, NL, 97, 97>>

Streams == SeqsUpTo(Bytes, MaxData) \cup {ExampleStream}

\* every way to hand a stream of n bytes over in non-empty refills of at
\* most BufSize bytes
RECURSIVE Chunkings(_)
Chunkings(n) ==
    IF n = 0 THEN {<<>>}
    ELSE UNION {{<<k>> \o c : c \in Chunkings(n - k)} : k \in 1..Min(n, BufSize)}

(***************************************************************************)
(* The codec libraries.  A stored file is a sequence of tokens: a codec    *)
(* stores byte x as Shift + x between a header and a trailer token, the    *)
(* plain file stores the byte itself.                                      *)
(***************************************************************************)
Backends == {"plain", "gzip", "bzip2", "xz", "lzo"}

Shift(b) ==
    CASE b = "gzip" -> 1000 [] b = "bzip2" -> 2000 [] b = "xz" -> 3000
      [] OTHER -> 0

Framed(b) == b \in {"gzip", "bzip2", "xz"}

Header(b) == IF Framed(b) THEN <<Shift(b) + 900>> ELSE <<>>

Trailer(b) == IF Framed(b) THEN <<Shift(b) + 901>> ELSE <<>>

\* what the codec's compressor emits for the given bytes
Encode(b, bytes) == [i \in 1..Len(bytes) |-> bytes[i] + Shift(b)]

IsData(b, t) == t >= Shift(b) /\ t < Shift(b) + 256

\* what the codec's decompressor yields for a stored file
Decode(b, d) ==
    LET ts == SelectSeq(d, LAMBDA t : IsData(b, t))
    IN  [i \in 1..Len(ts) |-> ts[i] - Shift(b)]

\* lzma_code(LZMA_RUN) of a decoder: consumes the tokens of inq as long as
\* there is room for their output; a token that is not xz is an error
RECURSIVE LzmaDecode(_, _)
LzmaDecode(inq, room) ==
    IF inq = <<>> THEN [out |-> <<>>, rest |-> <<>>, err |-> FALSE]
    ELSE IF <<Head(inq)>> = Header("xz") \/ <<Head(inq)>> = Trailer("xz")
    THEN LzmaDecode(Tail(inq), room)
    ELSE IF ~IsData("xz", Head(inq))
    THEN [out |-> <<>>, rest |-> inq, err |-> TRUE]
    ELSE IF room = 0 THEN [out |-> <<>>, rest |-> inq, err |-> FALSE]
    ELSE LET r == LzmaDecode(Tail(inq), room - 1)
         IN  [r EXCEPT !.out = <<Head(inq) - Shift("xz")>> \o @]

\* fread(dec_buf, 1, XZ_BUFFER_SIZE, xf) of from_file tokens: they become
\* the decoder's input.  rf is [kind, disk, lib, strm].
XzFread(rf, from_file) ==
    [rf EXCEPT !.lib = [rpos |-> @.rpos + from_file,
                        eof  |-> @.eof \/ from_file < BufSize],
               !.strm.inq = SubSeq(rf.disk, rf.lib.rpos + 1, rf.lib.rpos + from_file),
               !.strm.avail_in = from_file]

\* if (stream.avail_in == 0) read more of the file
XzFill(rf) ==
    IF rf.strm.avail_in = 0
    THEN XzFread(rf, Min(BufSize, Len(rf.disk) - rf.lib.rpos))
    ELSE rf

\* the result of xz_read_into_buffer once lzma_code has returned d: 0
\* unless it returned LZMA_OK, else bufsize - avail_out
XzCoded(b, rf, d, n) ==
    [bp |-> [b EXCEPT !.buffer =
                [i \in 1..b.bufsize |-> IF i <= n THEN d.out[i] ELSE b.buffer[i]]],
     rf |-> [rf EXCEPT !.strm = [@ EXCEPT !.inq = d.rest,
                                          !.avail_in = Len(d.rest),
                                          !.avail_out = b.bufsize - n,
                                          !.err = rf.strm.err \/ d.err]],
     n  |-> n]

XzCode(b, rf, d) ==
    XzCoded(b, rf, d, IF rf.strm.err \/ d.err THEN 0 ELSE Len(d.out))

XzDecodeInto(b, rf) == XzCode(b, rf, LzmaDecode(rf.strm.inq, b.bufsize))

\* xz_read_into_buffer: fread into dec_buf when the decoder has no input
\* left, then decode into the buffer's memory
xz_read_into_buffer(st) == XzDecodeInto(st.bp, XzFill(st.rf))

\* lzo_read_into_buffer: return 0
lzo_read_into_buffer(st) == [bp |-> st.bp, rf |-> st.rf, n |-> 0]

\* a callback that hands the stream over in the refills listed in chunks
chunk_read_into_buffer(st) ==
    LET rf == st.rf
        n  == IF rf.chunks = <<>> THEN 0 ELSE Head(rf.chunks)
    IN  [bp |-> [st.bp EXCEPT !.buffer =
                    [i \in 1..st.bp.bufsize |->
                        IF i <= n THEN rf.stream[rf.fed + i] ELSE st.bp.buffer[i]]],
         rf |-> IF n = 0 THEN rf
                ELSE [rf EXCEPT !.chunks = Tail(@), !.fed = @ + n],
         n  |-> n]

(***************************************************************************)
(* The generic buffer, cfile_buffer.c.                                     *)
(***************************************************************************)

\* cfile_buffer_alloc: a buffer of the given size, nothing read yet
cfile_buffer_alloc(size) ==
    [buffer |-> [i \in 1..size |-> Uninit], bufsize |-> size, buflen |-> 0, bufpos |-> 0]

\* bp->read_into_buffer(private): the callback the buffer was allocated
\* with.  st is [bp, rf]; the result adds the count n.
read_into_buffer(st) ==
    CASE st.rf.kind = "xz"  -> xz_read_into_buffer(st)
      [] st.rf.kind = "lzo" -> lzo_read_into_buffer(st)
      [] OTHER              -> chunk_read_into_buffer(st)

\* the READ_BUFFER macro with the cursor left where it was
SetRead_KeepPos(r) == [bp |-> [r.bp EXCEPT !.buflen = r.n], rf |-> r.rf]

\* bufpos = 0; buflen = the count the callback returned
SetRead(r) == [bp |-> [r.bp EXCEPT !.bufpos = 0, !.buflen = r.n], rf |-> r.rf]

\* the READ_BUFFER macro: bufpos = 0; buflen = read_into_buffer(private)
READ_BUFFER(st) == SetRead(read_into_buffer(st))

\* the loop test with the count tested before it is decremented
LoopTest_PostDec(len) == len # 0

\* the loop test of the line reads, while (--len): len is the value of the
\* variable before the test; the body runs with len - 1
LoopTest(len) == len - 1 # 0

\* result of a line read on a buffer: the state after the call, what was
\* returned (the caller's str or NULL), the bytes stored through ptr and
\* the offset at which the terminating NUL was stored (Uninit: none)
BufNull(st) == [st |-> st, ret |-> "null", str |-> <<>>, nul |-> Uninit]

BufStr(st, out) == [st |-> st, ret |-> "str", str |-> out, nul |-> Len(out)]

\* The loop of buf_fgets.  len is the count before the loop test, out the
\* bytes stored through ptr so far.
RECURSIVE buf_fgets_loop(_, _, _)
RECURSIVE buf_fgets_copy(_, _, _, _)
buf_fgets_copy(st, ch, len, out) ==
    IF ch = NL THEN BufStr(st, Append(out, ch))
    ELSE buf_fgets_loop(st, len - 1, Append(out, ch))

\* after the refill, if one was needed: leave at the end of the stream,
\* else copy the next byte
buf_fgets_body(st, need, len, out) ==
    IF need /\ st.bp.buflen <= 0
    THEN IF out = <<>> THEN BufNull(st) ELSE BufStr(st, out)
    ELSE buf_fgets_copy([st EXCEPT !.bp.bufpos = @ + 1],
                        st.bp.buffer[st.bp.bufpos + 1], len, out)

buf_fgets_loop(st, len, out) ==
    IF ~LoopTest(len) THEN BufStr(st, out)
    ELSE IF st.bp.buflen = st.bp.bufpos
    THEN buf_fgets_body(READ_BUFFER(st), TRUE, len, out)
    ELSE buf_fgets_body(st, FALSE, len, out)

\* buf_fgets(bp, str, len, private)
buf_fgets(st, len) ==
    IF len <= 0 THEN BufNull(st) ELSE buf_fgets_loop(st, len, <<>>)

\* result of a bulk read on a buffer: the state after, the value returned,
\* the bytes copied to target, and whether the call never returns
BufRead(st, ret, out, hang) == [st |-> st, ret |-> ret, str |-> out, hang |-> hang]

\* The for loop of buf_fread.  len is what is still asked for, out the
\* bytes copied so far, total the value of total_copied, which starts as
\* whatever the variable holds, for it is never set.  The loop has no test
\* of len: with nothing more to copy and bytes in the buffer a turn changes
\* nothing and the next turn is the same.
RECURSIVE buf_fread_loop(_, _, _, _)
buf_fread_copy(st, chunk, len, out, total) ==
    IF chunk = 0 THEN BufRead(st, total, out, TRUE)
    ELSE buf_fread_loop([st EXCEPT !.bp.bufpos = @ + chunk], len - chunk,
                        out \o [i \in 1..chunk |-> st.bp.buffer[st.bp.bufpos + i]],
                        total + chunk)

buf_fread_filled(st, need, len, out, total) ==
    IF need /\ st.bp.buflen = 0
    THEN IF out = <<>> THEN BufRead(st, 0, out, FALSE)
         ELSE BufRead(st, total, out, FALSE)
    ELSE buf_fread_copy(st, Min(len, st.bp.buflen - st.bp.bufpos), len, out, total)

buf_fread_loop(st, len, out, total) ==
    IF st.bp.bufpos = st.bp.buflen
    THEN buf_fread_filled(READ_BUFFER(st), TRUE, len, out, total)
    ELSE buf_fread_filled(st, FALSE, len, out, total)

\* buf_fread(bp, target, len, private); junk is what total_copied holds
\* when the function is entered
buf_fread(st, len, junk) ==
    IF len <= 0 THEN BufRead(st, 0, <<>>, FALSE)
    ELSE buf_fread_loop(st, len, <<>>, junk)

\* buf_empty
buf_empty(b) == b.buflen = 0

(***************************************************************************)
(* The stream handle.  A world w is [hd, disk, env]: the handle with its   *)
(* backend private state, the stored file, and the OS files and codec      *)
(* sessions the handle owns.                                               *)
(***************************************************************************)
EOF == 0 - 1

\* a buffer pointer that is NULL
NoBuf == [buffer |-> <<>>, bufsize |-> 0, buflen |-> 0, bufpos |-> 0]

\* a zeroed lzma_stream
NoStream == [avail_in |-> 0, inq |-> <<>>, avail_out |-> 0, pend |-> <<>>,
             started |-> FALSE, err |-> FALSE]

\* no handle: the caller holds NULL
NoHandle == [open |-> FALSE, backend |-> "none", writing |-> FALSE,
             lib |-> [rpos |-> 0, eof |-> FALSE],
             bufalloc |-> FALSE, buf |-> NoBuf, strm |-> NoStream]

\* the bytes the codec library decodes from the handle's file
Decoded(w) == Decode(w.hd.backend, w.disk)

\* the open routine of a backend path: fopen, gzopen or BZ2_bzopen, then
\* the private state.  Opening for writing truncates the file.
backend_open(b, writing, w) ==
    LET h == [open |-> TRUE, backend |-> b, writing |-> writing,
              lib |-> [rpos |-> 0, eof |-> FALSE],
              bufalloc |-> FALSE,
              buf |-> IF b \in {"xz", "lzo"} THEN cfile_buffer_alloc(BufSize) ELSE NoBuf,
              strm |-> IF b = "xz" /\ writing
                       THEN [NoStream EXCEPT !.avail_out = BufSize]
                       ELSE NoStream]
    IN  [hd   |-> h,
         disk |-> IF ~writing THEN w.disk
                  ELSE IF b \in {"gzip", "bzip2"} THEN Header(b) ELSE <<>>,
         env  |-> [w.env EXCEPT !.files = @ + 1,
                                !.sess = IF Framed(b) THEN @ + 1 ELSE @]]

\* conversion of a char fetched from the buffer to int
CharToInt(c, signed) == IF signed /\ c >= 128 THEN c - 256 ELSE c

\* the bytes fgets and gzgets take from s when n bytes fit: up to and
\* including the first line-end byte
RECURSIVE fgets_bytes(_, _)
fgets_bytes(s, n) ==
    IF n = 0 \/ s = <<>> THEN <<>>
    ELSE IF Head(s) = NL THEN <<NL>>
    ELSE <<Head(s)>> \o fgets_bytes(Tail(s), n - 1)

\* result of a line read: the world after it, the pointer returned, the
\* bytes stored in the caller's array and the offset of the stored NUL
GetsNull(w) == [w |-> w, ret |-> "null", str |-> <<>>, nul |-> Uninit]

GetsStr(w, out) == [w |-> w, ret |-> "str", str |-> out, nul |-> Len(out)]

\* the decoded bytes the library handle has not yet handed out
LibRest(w) == SubSeq(Decoded(w), w.hd.lib.rpos + 1, Len(Decoded(w)))

\* the library handle after a line read that took line when len - 1 bytes
\* fitted: the end-of-file indicator is set when the end was run into
LibAdvance(w, line, len) ==
    [w EXCEPT !.hd.lib =
        [rpos |-> @.rpos + Len(line),
         eof  |-> @.eof \/ (Len(line) < len - 1
                             /\ (line = <<>> \/ line[Len(line)] # NL))]]

\* what fgets and gzgets return having taken line: NULL if nothing
LibLine(w, line, len) ==
    IF line = <<>> THEN GetsNull(LibAdvance(w, line, len))
    ELSE GetsStr(LibAdvance(w, line, len), line)

\* normal_gets: fgets(str, len, fp); with len 1 fgets stores the NUL and
\* returns str without reading
normal_gets(w, len) ==
    IF len <= 0 THEN GetsNull(w)
    ELSE IF len = 1 THEN GetsStr(w, <<>>)
    ELSE LibLine(w, fgets_bytes(LibRest(w), len - 1), len)

\* gzip_gets: gzgets(gp, str, len)
gzip_gets(w, len) ==
    IF len < 1 THEN GetsNull(w)
    ELSE LibLine(w, fgets_bytes(LibRest(w), len - 1), len)

\* a bzip2 file that does not end in its end-of-stream mark was cut short
CutShort(w) == w.disk = <<>> \/ <<w.disk[Len(w.disk)]>> # Trailer("bzip2")

\* BZ2_bzread(bp, buf, n) when k bytes are left to give: the bytes put
\* into buf, the count n returned and the handle after
BZ2_Give(w, k, n) ==
    [bytes |-> SubSeq(Decoded(w), w.hd.lib.rpos + 1, w.hd.lib.rpos + k),
     n     |-> n,
     w     |-> [w EXCEPT !.hd.lib.rpos = @ + k]]

\* the count is -1 when the file ends before the request is met and
\* before the end of the stream (BZ_UNEXPECTED_EOF), on every such call
BZ2_Took(w, n, k) == BZ2_Give(w, k, IF k < n /\ CutShort(w) THEN 0 - 1 ELSE k)

BZ2_bzread(w, n) == BZ2_Took(w, n, Min(n, Len(Decoded(w)) - w.hd.lib.rpos))

\* if (!buffer) buffer = talloc_array(char, BZIP2_BUFFER_SIZE)
bz_alloc(w) ==
    IF w.hd.bufalloc THEN w
    ELSE [w EXCEPT !.hd.bufalloc = TRUE,
                   !.hd.buf.buffer = [i \in 1..BufSize |-> Uninit],
                   !.hd.buf.bufsize = BufSize]

\* return buffer[bufpos++]; a position beyond the array yields a byte
\* that is not the buffer's
bz_take(w) ==
    [w  |-> [w EXCEPT !.hd.buf.bufpos = @ + 1],
     ch |-> CharToInt(IF w.hd.buf.bufpos < w.hd.buf.bufsize
                      THEN w.hd.buf.buffer[w.hd.buf.bufpos + 1]
                      ELSE Uninit, w.env.charSigned)]

\* the handle after bufpos = 0; buflen = BZ2_bzread(...)
bz_stored(r) ==
    [r.w EXCEPT !.hd.buf.bufpos = 0,
                !.hd.buf.buflen = r.n,
                !.hd.buf.buffer = [i \in 1..BufSize |->
                    IF i <= Len(r.bytes) THEN r.bytes[i] ELSE @[i]]]

\* bufpos = 0; buflen = BZ2_bzread(...); if (buflen <= 0) return EOF
bz_refilled(r) ==
    IF r.n <= 0 THEN [w |-> bz_stored(r), ch |-> EOF]
    ELSE bz_take(bz_stored(r))

bz_fgetc_alloced(w) ==
    IF w.hd.buf.buflen = w.hd.buf.bufpos
    THEN bz_refilled(BZ2_bzread(w, BufSize))
    ELSE bz_take(w)

\* bz_fgetc: allocate the buffer on first use, refill it when it is used
\* up, return the next char as an int or EOF
bz_fgetc(w) == bz_fgetc_alloced(bz_alloc(w))

\* the loop of bzip2_gets (and of the BZIPPED case of cfgets)
RECURSIVE bzip2_gets_loop(_, _, _)
RECURSIVE bzip2_gets_store(_, _, _, _)
bzip2_gets_store(w, c, len, out) ==
    IF c = NL THEN GetsStr(w, Append(out, c))
    ELSE bzip2_gets_loop(w, len - 1, Append(out, c))

\* if ((ch = bz_fgetc(fp)) == EOF) ...; if ((*ptr++ = ch) == '\n') break
bzip2_gets_body(r, len, out) ==
    IF r.ch = EOF
    THEN IF out = <<>> THEN GetsNull(r.w) ELSE GetsStr(r.w, out)
    ELSE bzip2_gets_store(r.w, (r.ch + 256) % 256, len, out)

bzip2_gets_loop(w, len, out) ==
    IF ~LoopTest(len) THEN GetsStr(w, out)
    ELSE bzip2_gets_body(bz_fgetc(w), len, out)

\* bzip2_gets
bzip2_gets(w, len) ==
    IF len <= 0 THEN GetsNull(w) ELSE bzip2_gets_loop(w, len, <<>>)

\* the handle's buffer and callback state as buf_fgets takes them
XzState(w) ==
    [bp |-> w.hd.buf,
     rf |-> [kind |-> w.hd.backend, disk |-> w.disk, lib |-> w.hd.lib, strm |-> w.hd.strm]]

XzWorld(w, st) ==
    [w EXCEPT !.hd.buf = st.bp, !.hd.lib = st.rf.lib, !.hd.strm = st.rf.strm]

XzGot(w, r) == [w |-> XzWorld(w, r.st), ret |-> r.ret, str |-> r.str, nul |-> r.nul]

\* xz_gets: buf_fgets(cfxp->buffer, str, len, fp)
xz_gets(w, len) == XzGot(w, buf_fgets(XzState(w), len))

\* cfile_lzo_gets: return 0
cfile_lzo_gets(w, len) == GetsNull(w)

\* cfgets on a handle that is not NULL: the backend's line read
cfgets(w, len) ==
    CASE w.hd.backend = "gzip"  -> gzip_gets(w, len)
      [] w.hd.backend = "bzip2" -> bzip2_gets(w, len)
      [] w.hd.backend = "xz"    -> xz_gets(w, len)
      [] w.hd.backend = "lzo"   -> cfile_lzo_gets(w, len)
      [] OTHER                  -> normal_gets(w, len)

\* normal_eof: feof; gzip_eof: gzeof
normal_eof(w) == w.hd.lib.eof

gzip_eof(w) == w.hd.lib.eof

\* bzip2_eof: BZ2_bzerror reports 0 for a session without error, so the
\* answer is whether the line buffer exists with length and position zero
bzip2_eof(w) ==
    w.hd.bufalloc /\ w.hd.buf.buflen = 0 /\ w.hd.buf.bufpos = 0

\* xz_eof: feof(xf) && buf_empty(buffer)
xz_eof(w) == w.hd.lib.eof /\ buf_empty(w.hd.buf)

\* cfile_lzo_eof: return 1
cfile_lzo_eof(w) == TRUE

\* cfeof on a handle that is not NULL
cfeof(w) ==
    CASE w.hd.backend = "gzip"  -> gzip_eof(w)
      [] w.hd.backend = "bzip2" -> bzip2_eof(w)
      [] w.hd.backend = "xz"    -> xz_eof(w)
      [] w.hd.backend = "lzo"   -> cfile_lzo_eof(w)
      [] OTHER                  -> normal_eof(w)

(***************************************************************************)
(* Block read and write.  A read yields the world after it, the value      *)
(* returned and the bytes stored in the caller's destination memory.       *)
(***************************************************************************)

\* the bytes the library handle yields for a request of n bytes when k
\* are left to give
LibGive(w, n, k) ==
    [bytes |-> SubSeq(Decoded(w), w.hd.lib.rpos + 1, w.hd.lib.rpos + k),
     w     |-> [w EXCEPT !.hd.lib = [rpos |-> @.rpos + k, eof |-> @.eof \/ k < n]]]

lib_take(w, n) == LibGive(w, n, Min(n, Len(Decoded(w)) - w.hd.lib.rpos))

ReadItems(r, size) == [w |-> r.w, ret |-> Len(r.bytes) \div size, stored |-> r.bytes]

ReadBytes(r) == [w |-> r.w, ret |-> Len(r.bytes), stored |-> r.bytes]

\* normal_read: fread(ptr, size, num, fp), the number of whole items
normal_read(w, size, num) == ReadItems(lib_take(w, size * num), size)

\* gzip_read: gzread(gp, ptr, size * num), the number of bytes
gzip_read(w, size, num) == ReadBytes(lib_take(w, size * num))

\* bzip2_read: BZ2_bzread(bp, ptr, size * num), the number of bytes
BzReadBytes(r) == [w |-> r.w, ret |-> r.n, stored |-> r.bytes]

bzip2_read(w, size, num) == BzReadBytes(BZ2_bzread(w, size * num))

\* the do-while loop of xz_read after lzma_code returned LZMA_OK with the
\* input used up: add a refill to read_bytes; leave when the target is
\* reached or lzma_code stops returning LZMA_OK
RECURSIVE xz_read_loop(_, _, _)
RECURSIVE xz_read_next(_, _, _, _)
xz_read_next(w, n, rb, target) ==
    IF rb >= target \/ w.hd.strm.err \/ w.hd.strm.avail_in > 0
       \/ (n = 0 /\ w.hd.lib.rpos = Len(w.disk))
    THEN [w |-> w, ret |-> rb, stored |-> <<>>]
    ELSE xz_read_loop(w, rb, target)

xz_read_refilled(w, r, read_bytes, target) ==
    xz_read_next(XzWorld(w, r), r.n, read_bytes + r.n, target)

xz_read_loop(w, read_bytes, target) ==
    xz_read_refilled(w, xz_read_into_buffer(XzState(w)), read_bytes, target)

\* xz_read: the decoder is given the caller's memory as its input, num
\* bytes of it.  What that memory holds is not known: the decoder rejects
\* it (and stays in error), or takes it without output.  Nothing is ever
\* stored in the caller's memory.
xz_read(w, size, num, accept) ==
    IF ~accept \/ w.hd.strm.err
    THEN [w |-> [w EXCEPT !.hd.strm.err = TRUE, !.hd.strm.inq = <<>>,
                          !.hd.strm.avail_in = 0],
          ret |-> 0, stored |-> <<>>]
    ELSE xz_read_loop([w EXCEPT !.hd.strm.inq = <<>>, !.hd.strm.avail_in = 0],
                      0, size * num)

\* cfile_lzo_read: return 0
cfile_lzo_read(w, size, num) == [w |-> w, ret |-> 0, stored |-> <<>>]

\* cfread on a handle that is not NULL
cfread(w, size, num, accept) ==
    CASE w.hd.backend = "gzip"  -> gzip_read(w, size, num)
      [] w.hd.backend = "bzip2" -> bzip2_read(w, size, num)
      [] w.hd.backend = "xz"    -> xz_read(w, size, num, accept)
      [] w.hd.backend = "lzo"   -> cfile_lzo_read(w, size, num)
      [] OTHER                  -> normal_read(w, size, num)

\* normal_write: fwrite(ptr, size, num, fp), the number of items
normal_write(w, bytes, size, num) ==
    [w |-> [w EXCEPT !.disk = @ \o bytes], ret |-> num]

\* gzip_write: gzwrite(gp, ptr, size * num), the number of bytes
gzip_write(w, bytes, size, num) ==
    [w |-> [w EXCEPT !.disk = @ \o Encode("gzip", bytes)], ret |-> size * num]

\* bzip2_write: BZ2_bzwrite(bp, ptr, size * num), the number of bytes
bzip2_write(w, bytes, size, num) ==
    [w |-> [w EXCEPT !.disk = @ \o Encode("bzip2", bytes)], ret |-> size * num]

\* lzma_code of the encoder: move k tokens of pending output into the
\* buffer's memory at next_out
LzmaMove(w, k, off) ==
    [w EXCEPT !.hd.buf.buffer = [i \in 1..w.hd.buf.bufsize |->
                    IF i > off /\ i <= off + k THEN w.hd.strm.pend[i - off] ELSE @[i]],
              !.hd.strm.pend = SubSeq(@, k + 1, Len(@)),
              !.hd.strm.avail_out = @ - k]

\* as much as avail_out allows
LzmaOut(w) ==
    LzmaMove(w, Min(Len(w.hd.strm.pend), w.hd.strm.avail_out),
             w.hd.buf.bufsize - w.hd.strm.avail_out)

\* fwrite of the first n cells of the buffer's memory
XzFwrite(w, n) == [w EXCEPT !.disk = @ \o SubSeq(w.hd.buf.buffer, 1, n)]

\* the for loop of xz_write: code, leave if room is left, else write the
\* whole buffer and reset next_out and avail_out
RECURSIVE xz_write_loop(_)
RECURSIVE xz_write_coded(_)
xz_write_coded(w) ==
    IF w.hd.strm.avail_out > 0 THEN w
    ELSE xz_write_loop([XzFwrite(w, w.hd.buf.bufsize)
                          EXCEPT !.hd.strm.avail_out = w.hd.buf.bufsize])

xz_write_loop(w) == xz_write_coded(LzmaOut(w))

\* what the encoder has to emit for new input: the stream header first
LzmaFeed(w, tokens) ==
    [w EXCEPT !.hd.strm.pend = @ \o (IF w.hd.strm.started THEN <<>> ELSE Header("xz"))
                                 \o tokens,
              !.hd.strm.started = TRUE]

\* xz_write: returns num
xz_write(w, bytes, size, num) ==
    [w |-> xz_write_loop(LzmaFeed(w, Encode("xz", bytes))), ret |-> num]

\* cfile_lzo_write: return num
cfile_lzo_write(w, bytes, size, num) == [w |-> w, ret |-> num]

\* cfwrite on a handle that is not NULL
cfwrite(w, bytes, size, num) ==
    CASE w.hd.backend = "gzip"  -> gzip_write(w, bytes, size, num)
      [] w.hd.backend = "bzip2" -> bzip2_write(w, bytes, size, num)
      [] w.hd.backend = "xz"    -> xz_write(w, bytes, size, num)
      [] w.hd.backend = "lzo"   -> cfile_lzo_write(w, bytes, size, num)
      [] OTHER                  -> normal_write(w, bytes, size, num)

(***************************************************************************)
(* Size of a gzip and of a bzip2 file.  A file f is what the size routines *)
(* see of it: real is the length of the uncompressed content, flen the     *)
(* length of the compressed file, isize the 32-bit length field a gzip     *)
(* file ends with, mtime its modification time, attr the extended          *)
(* attribute user.cfile_uncompressed_size, xattrOK whether the filesystem  *)
(* takes the attribute, clock what time(NULL) returns, runs the number of  *)
(* times the bzcat | wc -c pipeline was run.                               *)
(***************************************************************************)
\* conversion of a length to a 32-bit int
ToInt32(x) ==
    IF x % TwoTo32 >= TwoTo31 THEN (x % TwoTo32) - TwoTo32 ELSE x % TwoTo32

\* no attribute on the file
NoAttr == [present |-> FALSE, size |-> 0, stamp |-> 0]

\* what a size routine hands back: the file as it leaves it, the value,
\* whether the pipeline ran and whether the attribute's size was used
Sized(f, ret, ran, hit) == [f |-> f, ret |-> ret, ran |-> ran, hit |-> hit]

\* gzip_size: fopen, fseek(rawfp, -4, 2), fread(&size, 4, 1, rawfp) into
\* an int, return (off_t)size; on a file of fewer than 4 bytes nothing is
\* read and size holds whatever the stack held (junk)
gzip_size(f, junk) ==
    IF ~f.readable THEN Sized(f, 0, FALSE, FALSE)
    ELSE IF f.flen < 4 THEN Sized(f, junk, FALSE, FALSE)
    ELSE Sized(f, ToInt32(f.isize), FALSE, FALSE)

\* the test of the attribute's time stamp against st_mtime: < in cfile.c,
\* <= in cfile_bzip2.c
StampValid(impl, mtime, stamp) ==
    IF impl = "cfile.c" THEN mtime < stamp ELSE mtime <= stamp

\* bzip_attribute_size: 0 unless the attribute is there and its time stamp
\* passes; the off_t file_size is returned as int
bzip_attribute_size(f) ==
    IF ~f.attr.present THEN 0
    ELSE IF StampValid(f.impl, f.mtime, f.attr.stamp) THEN ToInt32(f.attr.size)
    ELSE 0

\* bzip_calculate_size: popen("bzcat 'name' | wc -c"), fgets, atol
bzip_calculate_size(f) == f.real

\* bzip_attempt_store: setxattr of {size, time(NULL)}, its result ignored
bzip_attempt_store(f, size) ==
    IF f.xattrOK
    THEN [f EXCEPT !.attr = [present |-> TRUE, size |-> size, stamp |-> f.clock]]
    ELSE f

\* the pipeline is run and its result stored
bzip2_size_miss(f, size) ==
    Sized([bzip_attempt_store(f, size) EXCEPT !.runs = @ + 1], size, TRUE, FALSE)

\* bzip2_size: if ((size = bzip_attribute_size(fp)) == 0) { size =
\* bzip_calculate_size(fp); bzip_attempt_store(fp, size); } return size
bzip2_size_got(f, size) ==
    IF size = 0 THEN bzip2_size_miss(f, bzip_calculate_size(f))
    ELSE Sized(f, size, FALSE, TRUE)

bzip2_size(f) == bzip2_size_got(f, bzip_attribute_size(f))

\* the close of a bzip2 handle, as far as the attribute goes (bzip2_close,
\* and the same lines in cf_destroyclose).  A handle whose line buffer
\* was allocated is closed by BZ2_bzReadClose.  Any other handle is taken
\* for a written one: BZ2_bzWriteClose hands back the low 32 bits of the
\* count of bytes written and the count is stored.  Called on a handle
\* that was read it returns at once with BZ_SEQUENCE_ERROR and leaves
\* uncompressed_size as it was, never set: junk is stored.
bzip2_close_store(f, writing, buffer, junk) ==
    IF buffer THEN f
    ELSE IF writing THEN bzip_attempt_store(f, f.real % TwoTo32)
    ELSE bzip_attempt_store(f, junk)

(***************************************************************************)
(* Size of an xz file.  The file is a sequence of 32-bit words, which is   *)
(* the unit of the format's alignment: a stream is a header of HeaderWords *)
(* words, its blocks, its index and a footer of HeaderWords words; zero    *)
(* words are stream padding.  A word is a record: k its kind ("H" header,  *)
(* "B" block payload, "I" index, "F" footer, "Z" zero, "J" anything else), *)
(* i its place in its structure, n the length of the index, u and t the    *)
(* uncompressed size and the total block size the index records; in a      *)
(* header and a footer t is the stream flags.                              *)
(***************************************************************************)
Word(k, i, n, u, t) == [k |-> k, i |-> i, n |-> n, u |-> u, t |-> t]

Zero == Word("Z", 0, 0, 0, 0)

Junk == Word("J", 0, 0, 0, 0)

\* the words of an index of n words for blocks of t words holding u bytes
IndexOf(n, u, t) == [j \in 1..n |-> Word("I", j, n, u, t)]

\* the footer of a stream: its second word is the backward size
FooterOf(n) == [j \in 1..HeaderWords |-> Word("F", j, n, 0, 0)]

\* what the encoder writes for u bytes of content: a stream with u words
\* of block payload.  n is the backward size put into the footer, t the
\* total block size put into the index, gap what lies between the index
\* and the footer (nothing in a stream the encoder wrote).
StreamOf(u, n, t, gap) ==
    [j \in 1..HeaderWords |-> Word("H", j, 0, 0, 0)]
    \o [j \in 1..u |-> Word("B", j, 0, 0, 0)]
    \o IndexOf(IF u = 0 THEN 2 ELSE 3, u, t)
    \o gap
    \o FooterOf(n)

\* fseek(my_fh, p, SEEK_SET): fails and leaves the position for p < 0
fseek(x, p) == IF p < 0 THEN x ELSE [x EXCEPT !.fpos = p]

\* the words a read of n words at the file position gets
FreadGot(x, n) == SubSeq(x.file, x.fpos + 1, Min(x.fpos + n, Len(x.file)))

\* fread(data, 1, n, my_fh): the words got overwrite the start of data
fread_store(x, got) ==
    [x EXCEPT !.data = got \o SubSeq(x.data, Len(got) + 1, Len(x.data)),
              !.fpos = @ + Len(got),
              !.touched = @ \cup {got[j].k : j \in 1..Len(got)},
              !.nread = Len(got)]

fread(x, n) == fread_store(x, FreadGot(x, n))

\* the walk is given up at this step
Abort(x, why) == [x EXCEPT !.abort = why]

\* the for loop of xz_size that looks for the footer: read a header's
\* length, leave if the last word read is not zero, else go back one word.
\* Below the start of the file the seek fails and the reads run forward to
\* the end of the file, where the loop goes on for ever.
RECURSIVE skip_padding(_)
skip_read(x) ==
    IF x.data[HeaderWords].k # "Z" THEN x
    ELSE IF x.pos < 0 /\ x.nread = 0 THEN [x EXCEPT !.hang = TRUE]
    ELSE skip_padding(fseek([x EXCEPT !.pos = @ - 1], x.pos - 1))

skip_padding(x) == skip_read(fread(x, HeaderWords))

\* lzma_stream_footer_decode(&footer_flags, data) == LZMA_OK
footer_ok(d) == \A j \in 1..HeaderWords : d[j].k = "F" /\ d[j].i = j

\* lzma_stream_header_decode(&header_flags, data) == LZMA_OK
header_ok(d) == \A j \in 1..HeaderWords : d[j].k = "H" /\ d[j].i = j

\* the index decoder is handed word w as word number i of the index
IndexWordOk(w, i, this) ==
    w.k = "I" /\ w.i = i /\ w.n = this.n /\ w.u = this.u /\ w.t = this.t

\* the do loop of xz_size that decodes the index in chunks of at most
\* ChunkWords: fread, leave on a short read, lzma_code(stream, LZMA_RUN)
\* while it returns LZMA_OK.  left is index_size, seen the words decoded.
RECURSIVE index_loop(_, _, _, _)
index_code(x, left, seen, avail, short) ==
    IF (seen = 0 /\ x.data[1].k # "I")
       \/ ~\A j \in 1..Min(avail, x.this.n - seen) : IndexWordOk(x.data[j], seen + j, x.this)
    THEN [x EXCEPT !.rtn = "error", !.left = left]
    ELSE IF x.this.n - seen <= avail
    THEN [x EXCEPT !.rtn = "end", !.left = left,
                   !.avail_in = avail - (x.this.n - seen)]
    ELSE index_loop(x, left, seen + avail, short)

index_first(x, left, seen, avail, short) ==
    index_code(IF seen = 0 /\ avail > 0
               THEN [x EXCEPT !.this = [n |-> x.data[1].n, u |-> x.data[1].u,
                                        t |-> x.data[1].t]]
               ELSE x, left, seen, avail, short)

index_read(x, left, seen, avail, short) ==
    IF short \/ x.nread < avail
    THEN [x EXCEPT !.rtn = "short", !.left = left, !.avail_in = avail]
    ELSE index_first([x EXCEPT !.pos = @ + avail], left - avail, seen, avail, short)

index_loop(x, left, seen, short) ==
    IF left = 0 THEN [x EXCEPT !.rtn = "error", !.left = 0]
    ELSE index_read(fread(x, Min(left, ChunkWords)), left, seen,
                    Min(left, ChunkWords), short)

\* lzma_index_cat(this_index, combined_index, NULL, 4): the streams found
\* before come after this one
IndexCat_DropEarlier(this, combined) == <<this>>

IndexCat(this, combined) == <<this>> \o combined

\* combine the indexes if there are two; combined_index = this_index
xz_combine(x, fail) ==
    IF x.comb # <<>> /\ fail = "cat" THEN Abort(x, "cat")
    ELSE [x EXCEPT !.comb = IndexCat(x.this.u, x.comb), !.streams = @ + 1]

\* decode the stream header found before the blocks
xz_header_read(x, fail) ==
    IF x.nread < HeaderWords THEN Abort(x, "short read")
    ELSE IF ~header_ok(x.data) THEN Abort(x, "header")
    ELSE xz_combine(x, fail)

\* pos -= backward_size + LZMA_STREAM_HEADER_SIZE, the check against the
\* total size of the blocks, pos -= that size, fseek, fread
xz_header_at(x, fail) ==
    IF x.pos >= 0 /\ x.pos < x.this.t THEN Abort(x, "total size")
    ELSE xz_header_read(fread(fseek([x EXCEPT !.pos = @ - x.this.t], x.pos - x.this.t),
                              HeaderWords), fail)

\* after the index was decoded: the exits of the walk, then the header
xz_index_done(x, bsize, fail) ==
    IF x.rtn = "short" THEN Abort(x, "short read")
    ELSE IF x.rtn # "end" THEN Abort(x, "index")
    ELSE IF x.left # 0 \/ x.avail_in # 0 THEN Abort(x, "index length")
    ELSE xz_header_at([x EXCEPT !.pos = @ - (bsize + HeaderWords)], fail)

\* the footer found: decode it, check the index size against pos (pos is
\* converted to the unsigned lzma_vli), move to the index and decode it
xz_footer_at(x, fail) ==
    IF x.hang THEN x
    ELSE IF ~footer_ok(x.data) THEN Abort(x, "footer")
    ELSE IF x.pos >= 0 /\ x.pos < x.data[2].n + HeaderWords THEN Abort(x, "index size")
    ELSE xz_index_done(index_loop(fseek([x EXCEPT !.pos = @ - x.data[2].n],
                                        x.pos - x.data[2].n),
                                  x.data[2].n, 0, fail = "read"),
                       x.data[2].n, fail)

\* one turn of the do loop of xz_size: one stream, from its footer to its
\* header
xz_walk_stream(x, fail) ==
    xz_footer_at(skip_padding(fseek([x EXCEPT !.pos = @ - HeaderWords],
                                    x.pos - HeaderWords)), fail)

RECURSIVE SumOf(_)
SumOf(s) == IF s = <<>> THEN 0 ELSE Head(s) + SumOf(Tail(s))

\* lzma_index_uncompressed_size(combined_index)
lzma_index_uncompressed_size(comb) == SumOf(comb)

(***************************************************************************)
(* The open routines.  A name is a sequence of characters.  step says      *)
(* which library call of the routine fails: "none", "open" (fopen, fdopen, *)
(* gzopen, BZ2_bzopen), "alloc" (the allocation of the handle), "buffer"   *)
(* (cfile_buffer_alloc), "dec_buf" (talloc_array) or "codec" (the lzma     *)
(* coder's initialisation).  The result tells what the caller gets and     *)
(* what is left behind: OS files and codec sessions open, handle memory    *)
(* not freed.                                                              *)
(***************************************************************************)
\* the pieces names are put together from
Pieces == {<<"a">>, <<".", "g", "z">>, <<".", "b", "z", "2">>,
           <<".", "t", "x", "t">>, <<"-">>}

Names == {Concat(ps) : ps \in SeqsUpTo(Pieces, MaxPieces) \ {<<>>}}

Modes == {"r", "w", "a"}

\* strstr(s, p) != NULL
strstr(s, p) ==
    \E i \in 1..Len(s) : i + Len(p) - 1 <= Len(s) /\ SubSeq(s, i, i + Len(p) - 1) = p

\* file_extension_type
file_extension_type(name) ==
    IF strstr(name, <<".", "g", "z">>) THEN "gzip"
    ELSE IF strstr(name, <<".", "b", "z", "2">>) THEN "bzip2"
    ELSE "plain"

\* what an open routine hands back
Opened(ret, type, files, sess, mem, fileok, bufok) ==
    [ret |-> ret, type |-> type, files |-> files, sess |-> sess, mem |-> mem,
     fileok |-> fileok, bufok |-> bufok]

\* return NULL with nothing left behind
OpenNull(type) == Opened("NULL", type, 0, 0, 0, FALSE, FALSE)

\* fp->filetype as cfopen sets it: by the content if libmagic looked at the
\* file (sniff is what it found, "none" if it was not asked), else by name
cfopen_type(name, sniff) ==
    IF name = <<"-">> THEN "plain"
    ELSE IF sniff = "none" THEN file_extension_type(name)
    ELSE IF sniff \in {"gzip", "bzip2"} THEN sniff
    ELSE "plain"

\* cfopen: talloc_zero, then fdopen of stdin or stdout for "-", else gzopen,
\* BZ2_bzopen or fopen by the type; talloc_free(fp) if that gave NULL
cfopen(name, mode, sniff, step) ==
    IF step = "alloc" THEN OpenNull("none")
    ELSE IF name = <<"-">> /\ mode = "a" THEN OpenNull("plain")
    ELSE IF step = "open" THEN OpenNull(cfopen_type(name, sniff))
    ELSE Opened("handle", cfopen_type(name, sniff), 1,
                IF cfopen_type(name, sniff) = "plain" THEN 0 ELSE 1, 1, TRUE, TRUE)

\* cfdopen: fdopen(filedesc, mode); talloc_free(fp) if that gave NULL
cfdopen(step) ==
    IF step = "open" THEN OpenNull("plain")
    ELSE Opened("handle", "plain", 1, 0, 1, TRUE, TRUE)

\* normal_open: stdin or stdout for "-", else fopen; then cfile_alloc
normal_open(name, mode, step) ==
    IF name # <<"-">> /\ step = "open" THEN OpenNull("plain")
    ELSE IF step = "alloc"
    THEN Opened("NULL", "plain", IF name = <<"-">> THEN 0 ELSE 1, 0, 0, FALSE, FALSE)
    ELSE Opened("handle", "plain", IF name = <<"-">> THEN 0 ELSE 1, 0, 1, TRUE, TRUE)

\* normal_dopen: fdopen, talloc_asprintf, cfile_alloc, cfnp->fp = own_file
normal_dopen(step) ==
    IF step = "alloc" THEN Opened("NULL", "plain", 1, 0, 0, FALSE, FALSE)
    ELSE IF step = "open" THEN Opened("handle", "plain", 0, 0, 1, FALSE, TRUE)
    ELSE Opened("handle", "plain", 1, 0, 1, TRUE, TRUE)

\* gzip_open: gzopen, then cfile_alloc
gzip_open(step) ==
    IF step = "open" THEN OpenNull("gzip")
    ELSE IF step = "alloc" THEN Opened("NULL", "gzip", 1, 1, 0, FALSE, FALSE)
    ELSE Opened("handle", "gzip", 1, 1, 1, TRUE, TRUE)

\* bzip2_open: BZ2_bzopen, then cfile_alloc, BZ2_bzclose if that failed
bzip2_open(step) ==
    IF step \in {"open", "alloc"} THEN OpenNull("bzip2")
    ELSE Opened("handle", "bzip2", 1, 1, 1, TRUE, TRUE)

\* xz_open: fopen, cfile_alloc, cfile_buffer_alloc, dec_buf when reading,
\* the coder; every failure goes through the labels that free and fclose
xz_open(mode, step) ==
    IF step \in {"open", "alloc", "buffer", "codec"} \/ (step = "dec_buf" /\ mode # "w")
    THEN OpenNull("xz")
    ELSE Opened("handle", "xz", 1, 1, 1, TRUE, TRUE)

\* cfile_lzo_open: fopen, cfile_alloc, cfile_buffer_alloc unchecked
cfile_lzo_open(step) ==
    IF step \in {"open", "alloc"} THEN OpenNull("lzo")
    ELSE Opened("handle", "lzo", 1, 0, 1, TRUE, step # "buffer")

\* the open routines of the backends and of the descriptor interface
OpenRoutines == {"cfdopen", "normal_open", "normal_dopen", "gzip_open",
                 "bzip2_open", "xz_open", "cfile_lzo_open"}

\* the library calls of a routine that can fail
OpenSteps(routine) ==
    CASE routine \in {"xz_open"}        -> {"none", "open", "alloc", "buffer", "dec_buf", "codec"}
      [] routine \in {"cfile_lzo_open"} -> {"none", "open", "alloc", "buffer"}
      [] routine = "cfdopen"            -> {"none", "open"}
      [] OTHER                          -> {"none", "open", "alloc"}

backend_routine(routine, name, mode, step) ==
    CASE routine = "cfdopen"        -> cfdopen(step)
      [] routine = "normal_open"    -> normal_open(name, mode, step)
      [] routine = "normal_dopen"   -> normal_dopen(step)
      [] routine = "gzip_open"      -> gzip_open(step)
      [] routine = "bzip2_open"     -> bzip2_open(step)
      [] routine = "xz_open"        -> xz_open(mode, step)
      [] OTHER                      -> cfile_lzo_open(step)

(***************************************************************************)
(* Formatted write and flush.  text is the expanded output talloc_vasprintf *)
(* or vfprintf produce from the format and its arguments; fail says        *)
(* whether the library call that stores it reports an error.               *)
(***************************************************************************)
\* normal_vprintf: vfprintf(fp, fmt, ap), the bytes written or a negative
normal_vprintf(w, text, fail) ==
    IF fail THEN [w |-> w, ret |-> 0 - 1]
    ELSE [w |-> [w EXCEPT !.disk = @ \o text], ret |-> Len(text)]

\* gzip_vprintf: gzwrite(gp, buf, strlen(buf)), the bytes written, 0 on
\* error
gzip_vprintf(w, text, fail) ==
    IF fail THEN [w |-> w, ret |-> 0]
    ELSE [w |-> [w EXCEPT !.disk = @ \o Encode("gzip", text)], ret |-> Len(text)]

\* bzip2_vprintf: BZ2_bzwrite(bp, buf, strlen(buf)), the bytes written, -1
\* on error
bzip2_vprintf(w, text, fail) ==
    IF fail THEN [w |-> w, ret |-> 0 - 1]
    ELSE [w |-> [w EXCEPT !.disk = @ \o Encode("bzip2", text)], ret |-> Len(text)]

\* xz_vprintf: xz_write(fp, buf, sizeof(char), strlen(buf)); xz_write
\* returns 0 when lzma_code does not return LZMA_OK
xz_vprintf(w, text, fail) ==
    IF fail THEN [w |-> [w EXCEPT !.hd.strm.err = TRUE], ret |-> 0]
    ELSE xz_write(w, text, 1, Len(text))

\* cfile_lzo_vprintf: vsnprintf(0, 0, fmt, ap), the length of the output,
\* which is stored nowhere
cfile_lzo_vprintf(w, text) == [w |-> w, ret |-> Len(text)]

\* cvfprintf on a handle that is not NULL
cvfprintf(w, text, fail) ==
    CASE w.hd.backend = "gzip"  -> gzip_vprintf(w, text, fail)
      [] w.hd.backend = "bzip2" -> bzip2_vprintf(w, text, fail)
      [] w.hd.backend = "xz"    -> xz_vprintf(w, text, fail)
      [] w.hd.backend = "lzo"   -> cfile_lzo_vprintf(w, text)
      [] OTHER                  -> normal_vprintf(w, text, fail)

\* normal_flush: fflush(fp)
normal_flush(w, fail) == [w |-> w, ret |-> IF fail = "none" THEN 0 ELSE EOF]

\* gzip_flush: gzflush(gp, Z_SYNC_FLUSH), Z_OK or Z_ERRNO
gzip_flush(w, fail) == [w |-> w, ret |-> IF fail = "none" THEN 0 ELSE 0 - 1]

\* bzip2_flush: BZ2_bzflush(bp) does nothing and returns 0
bzip2_flush(w) == [w |-> w, ret |-> 0]

\* fwrite(buffer, sizeof(char *), n, xf): n items of SizeofPtr bytes each
\* are taken from the buffer's memory, the cells of the buffer first and
\* whatever lies behind the allocation after them
XzFwriteItems(w, n) ==
    [w EXCEPT !.disk = @ \o [i \in 1..(SizeofPtr * n) |->
                  IF i <= w.hd.buf.bufsize THEN w.hd.buf.buffer[i] ELSE Uninit]]

\* written = fwrite(...); return written > 0
xz_flush_write(w, n, fail) ==
    IF fail = "fwrite" THEN [w |-> w, ret |-> 0]
    ELSE [w |-> XzFwriteItems(w, n), ret |-> IF n > 0 THEN 1 ELSE 0]

\* the for loop of xz_flush: lzma_code(LZMA_FULL_FLUSH) until
\* LZMA_STREAM_END; output that finds no room ends in LZMA_BUF_ERROR
xz_flush_coded(w, fail) ==
    IF w.hd.strm.pend # <<>> THEN [w |-> w, ret |-> EOF]
    ELSE xz_flush_write(w, w.hd.buf.bufsize - w.hd.strm.avail_out, fail)

\* xz_flush: EOF when the encoder reports an error, else whether fwrite
\* wrote any item
xz_flush(w, fail) ==
    IF fail = "code" THEN [w |-> [w EXCEPT !.hd.strm.err = TRUE], ret |-> EOF]
    ELSE xz_flush_coded(LzmaOut(LzmaFeed(w, <<>>)), fail)

\* cfile_lzo_flush: return 0
cfile_lzo_flush(w) == [w |-> w, ret |-> 0]

\* cfflush on a handle that is not NULL
cfflush(w, fail) ==
    CASE w.hd.backend = "gzip"  -> gzip_flush(w, fail)
      [] w.hd.backend = "bzip2" -> bzip2_flush(w)
      [] w.hd.backend = "xz"    -> xz_flush(w, fail)
      [] w.hd.backend = "lzo"   -> cfile_lzo_flush(w)
      [] OTHER                  -> normal_flush(w, fail)

\* what can go wrong in the library calls a flush of this handle makes
FlushFailuresOf(h) ==
    CASE h.backend \in {"bzip2", "lzo"} -> {"none"}
      [] h.backend = "xz"               -> {"none", "code", "fwrite"}
      [] OTHER                          -> {"none", "flush"}

(***************************************************************************)
(* Close.  fail is what goes wrong in the libraries during the call:       *)
(* "none", "finalize" (the codec or stdio cannot write out its last data)  *)
(* or "fclose" (closing the OS file reports an error).                     *)
(***************************************************************************)
Failures == {"none", "finalize", "fclose"}

\* what can go wrong in the library calls the close of this handle makes:
\* nothing when reading; cfile_lzo_close calls no library; bzip2_close
\* finishes the stream of a handle written but closes no file
FailuresOf(h) ==
    CASE ~h.writing \/ h.backend = "lzo"         -> {"none"}
      [] h.backend = "bzip2" /\ h.bufalloc       -> {"none"}
      [] h.backend = "bzip2"                     -> {"none", "finalize"}
      [] OTHER                                   -> Failures

\* fclose: the OS file is given up whatever the result
fclose(w, fail) ==
    [w   |-> [w EXCEPT !.env.files = @ - 1, !.env.fcloses = @ + 1],
     ret |-> IF fail = "none" THEN 0 ELSE EOF]

\* the codec session is given up
EndSession(w) == [w EXCEPT !.env.sess = @ - 1, !.env.ends = @ + 1]

\* normal_close: fclose(fp)
normal_close(w, fail) == fclose(w, fail)

\* gzip_close: gzclose(gp) writes the trailer of a file being written,
\* ends the session and closes the file; Z_ERRNO if that failed
gzip_close(w, fail) ==
    IF w.hd.writing /\ fail # "finalize"
    THEN fclose(EndSession([w EXCEPT !.disk = @ \o Trailer("gzip")]), fail)
    ELSE fclose(EndSession(w), fail)

\* bzip2_close: BZ2_bzReadClose if the line buffer was allocated, else
\* BZ2_bzWriteClose; either refuses a handle of the other direction with
\* BZ_SEQUENCE_ERROR, and neither closes the OS file
bzip2_close(w, fail) ==
    IF w.hd.bufalloc
    THEN IF w.hd.writing THEN [w |-> w, ret |-> 0 - 1]
         ELSE [w |-> EndSession(w), ret |-> 0]
    ELSE IF ~w.hd.writing THEN [w |-> w, ret |-> 0 - 1]
         ELSE IF fail = "finalize" THEN [w |-> w, ret |-> 0 - 6]
         ELSE [w |-> EndSession([w EXCEPT !.disk = @ \o Trailer("bzip2")]), ret |-> 0]

\* the for loop of xz_close: lzma_code(LZMA_FINISH), write the buffer out
\* when it is full, write what it holds and leave at LZMA_STREAM_END
RECURSIVE xz_finish_loop(_)
RECURSIVE xz_finish_end(_, _)
xz_finish_end(w, done) ==
    IF done THEN XzFwrite(w, w.hd.buf.bufsize - w.hd.strm.avail_out)
    ELSE xz_finish_loop(w)

xz_finish_coded(w) ==
    IF w.hd.strm.avail_out = 0
    THEN xz_finish_end([XzFwrite(w, w.hd.buf.bufsize)
                          EXCEPT !.hd.strm.avail_out = w.hd.buf.bufsize],
                       w.hd.strm.pend = <<>>)
    ELSE xz_finish_end(w, w.hd.strm.pend = <<>>)

xz_finish_loop(w) == xz_finish_coded(LzmaOut(w))

\* xz_close: finish the stream if writing (an error of the encoder leaves
\* the loop), lzma_end, return fclose(xf)
xz_close(w, fail) ==
    IF ~w.hd.writing THEN fclose(EndSession(w), "none")
    ELSE IF fail = "finalize"
    THEN fclose(EndSession([w EXCEPT !.hd.strm.err = TRUE]), "none")
    ELSE fclose(EndSession(xz_finish_loop(LzmaFeed(w, Trailer("xz")))), fail)

\* cfile_lzo_close: return 0
cfile_lzo_close(w, fail) == [w |-> w, ret |-> 0]

\* the destructor of the handle: the backend's close
cf_destroyclose(w, fail) ==
    CASE w.hd.backend = "gzip"  -> gzip_close(w, fail)
      [] w.hd.backend = "bzip2" -> bzip2_close(w, fail)
      [] w.hd.backend = "xz"    -> xz_close(w, fail)
      [] w.hd.backend = "lzo"   -> cfile_lzo_close(w, fail)
      [] OTHER                  -> normal_close(w, fail)

\* talloc_free of a chunk whose destructor returned d: -1 refuses the free
talloc_free(d) == IF d = 0 - 1 THEN 0 - 1 ELSE 0

\* cfclose on a handle that is not NULL: talloc_free(fp) runs the
\* destructor; the caller gives the pointer up
Freed(r) == [w |-> [r.w EXCEPT !.hd = NoHandle], ret |-> talloc_free(r.ret)]

cfclose(w, fail) == Freed(cf_destroyclose(w, fail))

\* the entry points of the dispatch core
EntryPoints == {"cfsize", "cfeof", "cfgets", "cvfprintf", "cfprintf",
                "cfread", "cfwrite", "cfflush", "cfclose"}

\* an entry point handed a NULL handle with its first statement, if (!fp)
\* return 0, left out for cfclose
ReturnsAtOnce_NotClose(op, fp) == fp = "NULL" /\ op # "cfclose"

\* if (!fp) return 0: the first statement of every entry point (cfprintf
\* hands the handle to cvfprintf, which has it)
ReturnsAtOnce(op, fp) == fp = "NULL"

(***************************************************************************)
(* The calling program: it writes its data D through a handle opened for   *)
(* writing, closes it, opens the file for reading and reads it back; while *)
(* it holds no handle or the handle being written it may also call any     *)
(* entry point with NULL.                                                  *)
(***************************************************************************)
\* the data written through a backend: 0xFF is told apart from other bytes
\* only where chars are converted to int, in the bzip2 backend
FileData(b) == SeqsUpTo(IF b = "bzip2" THEN Bytes ELSE {97, NL}, MaxFile)

\* the item counts of block reads and writes
Counts == {1, 2}

World == [hd |-> hd, disk |-> disk, env |-> env]

SetWorld(w) == hd' = w.hd /\ disk' = w.disk /\ env' = w.env

NoCall == [op |-> "none", null |-> FALSE, ret |-> 0, pret |-> "none",
           size |-> 0, num |-> 0, cap |-> 0, str |-> <<>>, nul |-> Uninit,
           before |-> <<>>, fail |-> "none"]

\* the bytes of the decoded stream a line read has still to see: those
\* unread in the handle's buffer, then those the codec has not yet decoded
Remaining(w) ==
    LET b     == w.hd.buf
        inbuf == IF b.bufpos < b.buflen
                 THEN [i \in 1..(b.buflen - b.bufpos) |-> b.buffer[b.bufpos + i]]
                 ELSE <<>>
        dec   == IF w.hd.backend = "xz"
                 THEN Decode("xz", w.hd.strm.inq \o SubSeq(w.disk, w.hd.lib.rpos + 1, Len(w.disk)))
                 ELSE SubSeq(Decoded(w), w.hd.lib.rpos + 1, Len(Decoded(w)))
    IN  IF w.hd.backend = "lzo" \/ w.hd.strm.err THEN inbuf ELSE inbuf \o dec

\* the variables the buffer's own specification uses, at rest
BufIdle ==
    /\ bp = NoBuf
    /\ refill = [kind |-> "none", stream |-> <<>>, chunks |-> <<>>, fed |-> 0]
    /\ bcall = [cap |-> 0, results |-> <<>>]

\* no caller of cfgetline
GlIdle == [pc |-> "none", D |-> <<>>, cap0 |-> 0, maxline |-> 0, line |-> <<>>,
           len |-> 0, lines |-> <<>>, off |-> 0, req |-> 0, under |-> FALSE]

\* no open routine under way, no file being sized
AuxIdle ==
    /\ opn = [pc |-> "none"]
    /\ fs = [pc |-> "none"]
    /\ xw = [pc |-> "none"]

Init ==
    /\ BufIdle
    /\ gl = GlIdle
    /\ AuxIdle
    /\ hd = NoHandle
    /\ disk = <<>>
    /\ last = NoCall
    /\ \E b \in Backends : \E d \in FileData(b) :
          /\ usr = [backend |-> b, D |-> d, wpos |-> 0, dest |-> <<>>,
                    phase |-> "start", lines |-> FALSE, reads |-> FALSE]
          /\ \E sg \in (IF b = "bzip2" THEN BOOLEAN ELSE {TRUE}) :
                env = [files |-> 0, sess |-> 0, fcloses |-> 0, ends |-> 0,
                       charSigned |-> sg]

\* open the file by the backend's open routine, for writing
OpenWrite ==
    /\ usr.phase = "start"
    /\ SetWorld(backend_open(usr.backend, TRUE, World))
    /\ usr' = [usr EXCEPT !.phase = "writing"]
    /\ last' = [NoCall EXCEPT !.op = "cfopen"]
    /\ UNCHANGED <<bufVars, gl, auxVars>>

Wrote(r, size, num) ==
    /\ SetWorld(r.w)
    /\ usr' = [usr EXCEPT !.wpos = @ + size * num]
    /\ last' = [NoCall EXCEPT !.op = "cfwrite", !.ret = r.ret,
                              !.size = size, !.num = num]

\* cfwrite(fp, ptr, size, num) of the next size * num bytes of D
CfWrite ==
    /\ usr.phase = "writing"
    /\ \E size \in 1..MaxSize : \E num \in Counts :
          /\ usr.wpos + size * num <= Len(usr.D)
          /\ Wrote(cfwrite(World, SubSeq(usr.D, usr.wpos + 1, usr.wpos + size * num),
                           size, num), size, num)
    /\ UNCHANGED <<bufVars, gl, auxVars>>

Closed(r, fail) ==
    /\ SetWorld(r.w)
    /\ usr' = [usr EXCEPT !.phase =
                  IF usr.phase = "reading" THEN "done"
                  ELSE IF fail = "none" THEN "written" ELSE "failed"]
    /\ last' = [NoCall EXCEPT !.op = "cfclose", !.ret = r.ret, !.fail = fail]

\* cfclose(fp): of the handle being written once all of D was handed
\* over, of the handle being read at any time
CfClose ==
    /\ \/ usr.phase = "writing" /\ usr.wpos = Len(usr.D)
       \/ usr.phase = "reading"
    /\ \E fail \in FailuresOf(hd) : Closed(cfclose(World, fail), fail)
    /\ UNCHANGED <<bufVars, gl, auxVars>>

\* open the written file by the backend's open routine, for reading
OpenRead ==
    /\ usr.phase = "written"
    /\ SetWorld(backend_open(usr.backend, FALSE,
                             [World EXCEPT !.env.fcloses = 0, !.env.ends = 0]))
    /\ usr' = [usr EXCEPT !.phase = "reading"]
    /\ last' = [NoCall EXCEPT !.op = "cfopen"]
    /\ UNCHANGED <<bufVars, gl, auxVars>>

DidRead(r, size, num) ==
    /\ SetWorld(r.w)
    /\ usr' = [usr EXCEPT !.dest = @ \o r.stored, !.reads = TRUE]
    /\ last' = [NoCall EXCEPT !.op = "cfread", !.ret = r.ret,
                              !.size = size, !.num = num,
                              !.str = r.stored, !.before = Remaining(World)]

\* cfread(fp, ptr, size, num) into the next free bytes of the destination
CfRead ==
    /\ usr.phase = "reading"
    /\ \E size \in 1..MaxSize : \E num \in Counts :
       \E accept \in (IF hd.backend = "xz" THEN BOOLEAN ELSE {TRUE}) :
          DidRead(cfread(World, size, num, accept), size, num)
    /\ UNCHANGED <<bufVars, gl, auxVars>>

GotLine(r, cap) ==
    /\ SetWorld(r.w)
    /\ usr' = [usr EXCEPT !.lines = TRUE]
    /\ last' = [NoCall EXCEPT !.op = "cfgets", !.pret = r.ret, !.cap = cap,
                              !.str = r.str, !.nul = r.nul,
                              !.before = Remaining(World)]

\* cfgets(fp, str, cap) into an array of cap bytes
CfGets ==
    /\ usr.phase = "reading"
    /\ \E cap \in 1..MaxCap : GotLine(cfgets(World, cap), cap)
    /\ UNCHANGED <<bufVars, gl, auxVars>>

\* cfeof(fp)
CfEof ==
    /\ usr.phase = "reading"
    /\ last' = [NoCall EXCEPT !.op = "cfeof", !.ret = IF cfeof(World) THEN 1 ELSE 0,
                              !.before = Remaining(World)]
    /\ UNCHANGED <<hd, disk, env, usr>>
    /\ UNCHANGED <<bufVars, gl, auxVars>>

\* an entry point called with NULL: it returns 0 from its first statement;
\* without that statement it would use the pointer
CfNull ==
    /\ usr.phase \in {"start", "writing"}
    /\ \E op \in EntryPoints :
          last' = IF ReturnsAtOnce(op, "NULL")
                  THEN [NoCall EXCEPT !.op = op, !.null = TRUE,
                                      !.pret = IF op = "cfgets" THEN "null" ELSE "none"]
                  ELSE [NoCall EXCEPT !.op = op, !.null = TRUE, !.pret = "crash"]
    /\ UNCHANGED <<hd, disk, env, usr>>
    /\ UNCHANGED <<bufVars, gl, auxVars>>

Next ==
    \/ OpenWrite
    \/ CfWrite
    \/ CfClose
    \/ OpenRead
    \/ CfRead
    \/ CfGets
    \/ CfEof
    \/ CfNull

Spec == Init /\ [][Next]_vars

(***************************************************************************)
(* A calling program that formats text into the handle it writes and       *)
(* flushes it.                                                             *)
(***************************************************************************)
\* the expanded outputs of the formats used
Texts == {<<>>, <<97>>, <<97, NL>>}

\* the tokens the handle's file and codec hold so far
OutHeld ==
    Len(disk) + Len(hd.strm.pend) + (hd.buf.bufsize - hd.strm.avail_out)

Printed(r, text, fail) ==
    /\ SetWorld(r.w)
    /\ last' = [NoCall EXCEPT !.op = "cfprintf", !.ret = r.ret, !.str = text,
                              !.fail = IF fail THEN "write" ELSE "none"]

\* cfprintf(fp, fmt, ...): va_start, cvfprintf, va_end
CfPrintf ==
    /\ usr.phase = "writing"
    /\ OutHeld <= MaxOut
    /\ \E text \in Texts : \E fail \in (IF hd.backend = "lzo" THEN {FALSE} ELSE BOOLEAN) :
          Printed(cvfprintf(World, text, fail), text, fail)
    /\ UNCHANGED <<usr, bufVars, gl, auxVars>>

Flushed(r, fail) ==
    /\ SetWorld(r.w)
    /\ last' = [NoCall EXCEPT !.op = "cfflush", !.ret = r.ret, !.fail = fail,
                              !.num = Len(r.w.disk) - Len(disk)]

\* cfflush(fp)
CfFlush ==
    /\ usr.phase = "writing"
    /\ OutHeld <= MaxOut
    /\ \E fail \in FlushFailuresOf(hd) : Flushed(cfflush(World, fail), fail)
    /\ UNCHANGED <<usr, bufVars, gl, auxVars>>

OutNext ==
    \/ OpenWrite
    \/ CfWrite
    \/ CfPrintf
    \/ CfFlush
    \/ CfNull

SpecOut == Init /\ [][OutNext]_vars

(***************************************************************************)
(* A calling program that opens a file by one of the open routines.        *)
(***************************************************************************)
OpenIdle ==
    /\ BufIdle
    /\ gl = GlIdle
    /\ hd = NoHandle
    /\ disk = <<>>
    /\ env = [files |-> 0, sess |-> 0, fcloses |-> 0, ends |-> 0, charSigned |-> TRUE]
    /\ usr = [backend |-> "none", D |-> <<>>, wpos |-> 0, dest |-> <<>>,
              phase |-> "none", lines |-> FALSE, reads |-> FALSE]
    /\ last = NoCall
    /\ fs = [pc |-> "none"]
    /\ xw = [pc |-> "none"]

OpenInit ==
    /\ OpenIdle
    /\ \E name \in Names : \E mode \in Modes :
          opn = [pc |-> "idle", name |-> name, mode |-> mode, routine |-> "none",
                 sniff |-> "none", step |-> "none", res |-> OpenNull("none")]

\* cfopen(name, mode); libmagic is asked only when reading
CfOpen ==
    /\ opn.pc = "idle"
    /\ \E step \in {"none", "alloc", "open"} :
       \E sniff \in (IF opn.mode = "r" THEN {"none", "gzip", "bzip2", "data"} ELSE {"none"}) :
          opn' = [opn EXCEPT !.pc = "done", !.routine = "cfopen", !.sniff = sniff,
                             !.step = step,
                             !.res = cfopen(opn.name, opn.mode, sniff, step)]
    /\ UNCHANGED <<bufVars, hdVars, gl, fs, xw>>

\* one of the backends' open routines, or cfdopen
BackendOpen ==
    /\ opn.pc = "idle"
    /\ \E routine \in OpenRoutines : \E step \in OpenSteps(routine) :
          opn' = [opn EXCEPT !.pc = "done", !.routine = routine, !.step = step,
                             !.res = backend_routine(routine, opn.name, opn.mode, step)]
    /\ UNCHANGED <<bufVars, hdVars, gl, fs, xw>>

OpenNext == CfOpen \/ BackendOpen

SpecOpen == OpenInit /\ [][OpenNext]_vars

(***************************************************************************)
(* A program that asks the size of a gzip or bzip2 file several times      *)
(* while time passes and the file may be rewritten.                        *)
(***************************************************************************)
\* the uncompressed lengths enumerated
Sizes == {0, 3, TwoTo31}

\* no size() call made yet
NoSizeCall == [made |-> FALSE, ret |-> 0, ran |-> FALSE, hit |-> FALSE,
               rec |-> 0, stamp |-> 0, mtime |-> 0, epoch |-> 0]

SizeIdle ==
    /\ BufIdle
    /\ gl = GlIdle
    /\ hd = NoHandle
    /\ disk = <<>>
    /\ env = [files |-> 0, sess |-> 0, fcloses |-> 0, ends |-> 0, charSigned |-> TRUE]
    /\ usr = [backend |-> "none", D |-> <<>>, wpos |-> 0, dest |-> <<>>,
              phase |-> "none", lines |-> FALSE, reads |-> FALSE]
    /\ last = NoCall
    /\ opn = [pc |-> "none"]
    /\ xw = [pc |-> "none"]

\* a gzip file holds the low 32 bits of its content's length in its last
\* four bytes; a file cut short has fewer than four bytes
SizeInit ==
    /\ SizeIdle
    /\ \E kind \in {"gzip", "bzip2"} : \E real \in Sizes :
       \E impl \in (IF kind = "bzip2" THEN {"cfile.c", "cfile_bzip2.c"} ELSE {"cfile_gzip.c"}) :
       \E ok \in (IF kind = "bzip2" THEN BOOLEAN ELSE {TRUE}) :
       \E flen \in (IF kind = "gzip" THEN {2, 20} ELSE {20}) :
       \E mtime \in 0..1 :
          fs = [pc |-> "file", kind |-> kind, impl |-> impl, real |-> real,
                readable |-> TRUE, flen |-> flen, isize |-> real % TwoTo32,
                mtime |-> mtime, clock |-> 1, attr |-> NoAttr, xattrOK |-> ok,
                runs |-> 0, epoch |-> 0, calls |-> 0,
                prev |-> NoSizeCall, cur |-> NoSizeCall]

SizeCalled(r) ==
    fs' = [r.f EXCEPT !.calls = @ + 1, !.prev = fs.cur,
                      !.cur = [made |-> TRUE, ret |-> r.ret, ran |-> r.ran,
                               hit |-> r.hit, rec |-> fs.attr.size,
                               stamp |-> fs.attr.stamp, mtime |-> fs.mtime,
                               epoch |-> fs.epoch]]

\* cfsize(fp) on a handle of the file
CfSize ==
    /\ fs.pc = "file"
    /\ fs.calls < MaxSizeCalls
    /\ IF fs.kind = "gzip"
       THEN \E junk \in {0 - 1, 0, 7} : SizeCalled(gzip_size(fs, junk))
       ELSE SizeCalled(bzip2_size(fs))
    /\ UNCHANGED <<bufVars, hdVars, gl, opn, xw>>

\* a second passes
Tick ==
    /\ fs.pc = "file"
    /\ fs.clock < MaxClock
    /\ fs' = [fs EXCEPT !.clock = @ + 1]
    /\ UNCHANGED <<bufVars, hdVars, gl, opn, xw>>

\* another program rewrites the file in place: the content changes, the
\* modification time becomes now, the attribute stays on the inode
Rewrite ==
    /\ fs.pc = "file"
    /\ fs.epoch < MaxRewrites
    /\ \E real \in Sizes \ {fs.real} :
          fs' = [fs EXCEPT !.real = real, !.isize = real % TwoTo32,
                           !.mtime = fs.clock, !.epoch = @ + 1]
    /\ UNCHANGED <<bufVars, hdVars, gl, opn, xw>>

SizeNext == CfSize \/ Tick \/ Rewrite

SpecSize == SizeInit /\ [][SizeNext]_vars

(***************************************************************************)
(* The size of an xz file, one turn of the walk at a time.  The file is    *)
(* made of up to two streams, each as the encoder wrote it or damaged in   *)
(* one place, with stream padding after each and possibly with words that  *)
(* belong to no stream in front.                                           *)
(***************************************************************************)
Damages == {"good", "footer", "backward size", "index", "index gap",
            "total size", "header", "flags"}

StreamShapes ==
    {[kind |-> "none", u |-> 0]}
    \cup [kind : Damages, u : 0..MaxUSize]

IndexLen(u) == IF u = 0 THEN 2 ELSE 3

GoodStream(u) == StreamOf(u, IndexLen(u), u, <<>>)

\* the words of a stream of the given shape
StreamWords(s) ==
    IF s.kind = "none" THEN <<>>
    ELSE IF s.kind = "backward size"
    THEN StreamOf(s.u, IndexLen(s.u) + MaxUSize + 1, s.u, <<>>)
    ELSE IF s.kind = "index gap"
    THEN StreamOf(s.u, IndexLen(s.u) + 1, s.u, <<Junk>>)
    ELSE IF s.kind = "total size"
    THEN StreamOf(s.u, IndexLen(s.u), s.u + 1, <<>>)
    ELSE IF s.kind = "footer"
    THEN [GoodStream(s.u) EXCEPT ![HeaderWords + s.u + IndexLen(s.u) + 1] = Junk]
    ELSE IF s.kind = "index"
    THEN [GoodStream(s.u) EXCEPT ![HeaderWords + s.u + 2] = Junk]
    ELSE IF s.kind = "header"
    THEN [GoodStream(s.u) EXCEPT ![1] = Junk]
    ELSE IF s.kind = "flags"
    THEN [j \in 1..Len(GoodStream(s.u)) |->
             IF j <= HeaderWords THEN [GoodStream(s.u)[j] EXCEPT !.t = 1]
             ELSE GoodStream(s.u)[j]]
    ELSE GoodStream(s.u)

Padding(n) == [j \in 1..n |-> Zero]

Fronts == {<<>>, <<Junk>>, <<Zero>>, <<Junk, Junk, Junk, Junk>>}

\* what the undefined steps of xz_size can end in: the process dies, or
\* the call returns whatever it finds
Undefined == {[crash |-> TRUE, ret |-> 0], [crash |-> FALSE, ret |-> 0],
              [crash |-> FALSE, ret |-> 1]}

XzSizeIdle ==
    /\ BufIdle
    /\ gl = GlIdle
    /\ hd = NoHandle
    /\ disk = <<>>
    /\ env = [files |-> 0, sess |-> 0, fcloses |-> 0, ends |-> 0, charSigned |-> TRUE]
    /\ usr = [backend |-> "none", D |-> <<>>, wpos |-> 0, dest |-> <<>>,
              phase |-> "none", lines |-> FALSE, reads |-> FALSE]
    /\ last = NoCall
    /\ opn = [pc |-> "none"]
    /\ fs = [pc |-> "none"]

XzSizeInit ==
    /\ XzSizeIdle
    /\ \E front \in Fronts : \E a \in StreamShapes, b \in StreamShapes :
       \E pad1 \in 0..MaxPad, pad2 \in 0..MaxPad :
          xw = [pc |-> "file", front |-> front, a |-> a, pad1 |-> pad1,
                b |-> b, pad2 |-> pad2,
                file |-> front \o StreamWords(a) \o Padding(pad1)
                         \o StreamWords(b) \o Padding(pad2),
                pos |-> 0, fpos |-> 0,
                data |-> [j \in 1..HeaderWords |-> Word("U", 0, 0, 0, 0)],
                touched |-> {}, nread |-> 0, abort |-> "none", hang |-> FALSE,
                rtn |-> "none", left |-> 0, avail_in |-> 0,
                this |-> [n |-> 0, u |-> 0, t |-> 0], comb |-> <<>>,
                streams |-> 0, faults |-> 0, undef |-> FALSE,
                crash |-> FALSE, ret |-> 0]

\* xz_size up to the loop: fopen, fseek to the end, ftell.  A file shorter
\* than a header and a footer has data freed and the file closed, and the
\* function goes on to use both.
XzSizeOpen ==
    /\ xw.pc = "file"
    /\ IF Len(xw.file) < 2 * HeaderWords
       THEN \E out \in Undefined :
               xw' = [xw EXCEPT !.pc = "done", !.undef = TRUE,
                                !.crash = out.crash, !.ret = out.ret]
       ELSE xw' = [xw EXCEPT !.pc = "walk", !.pos = Len(xw.file),
                             !.fpos = Len(xw.file)]
    /\ UNCHANGED <<bufVars, hdVars, gl, opn, fs>>

\* where the walk stands after a turn of the do loop
XzWalked(x, fail) ==
    [x EXCEPT !.pc = IF x.hang THEN "hung"
                     ELSE IF x.abort # "none" \/ x.pos <= 0 THEN "end"
                     ELSE "walk",
              !.faults = IF x.abort \in {"cat", "short read"} /\ fail # "none"
                         THEN @ + 1 ELSE @]

\* one turn of the do loop; a read of the index may come back short and
\* joining two indexes may fail
XzWalk ==
    /\ xw.pc = "walk"
    /\ \E fail \in {"none", "read", "cat"} :
          xw' = XzWalked(xz_walk_stream(xw, fail), fail)
    /\ UNCHANGED <<bufVars, hdVars, gl, opn, fs>>

\* xz_size after the loop: fclose, lzma_index_uncompressed_size of the
\* combined index, which is NULL if no stream was decoded
XzSizeEnd ==
    /\ xw.pc = "end"
    /\ IF xw.comb = <<>>
       THEN \E out \in Undefined :
               xw' = [xw EXCEPT !.pc = "done", !.undef = TRUE,
                                !.crash = out.crash, !.ret = out.ret]
       ELSE xw' = [xw EXCEPT !.pc = "done",
                             !.ret = lzma_index_uncompressed_size(xw.comb)]
    /\ UNCHANGED <<bufVars, hdVars, gl, opn, fs>>

XzSizeNext == XzSizeOpen \/ XzWalk \/ XzSizeEnd

SpecXzSize == XzSizeInit /\ [][XzSizeNext]_vars

(***************************************************************************)
(* Handles on a bzip2 file that are opened, asked for the size, read or    *)
(* written, and closed.                                                    *)
(***************************************************************************)
\* what uncompressed_size can hold when it was never set
JunkSizes == {0, 7}

\* open for reading, perhaps read lines, close: a line read allocates the
\* buffer of the handle
CloseRead ==
    /\ fs.pc = "file" /\ fs.kind = "bzip2"
    /\ \E gets \in BOOLEAN : \E junk \in JunkSizes :
          fs' = bzip2_close_store(fs, FALSE, gets, junk)
    /\ UNCHANGED <<bufVars, hdVars, gl, opn, xw>>

\* open for writing, write the new content, close: the file holds the new
\* content and was modified now
CloseWrite ==
    /\ fs.pc = "file" /\ fs.kind = "bzip2"
    /\ fs.epoch < MaxRewrites
    /\ \E real \in Sizes :
          fs' = bzip2_close_store([fs EXCEPT !.real = real, !.isize = real % TwoTo32,
                                             !.mtime = fs.clock, !.epoch = @ + 1],
                                  TRUE, FALSE, 0)
    /\ UNCHANGED <<bufVars, hdVars, gl, opn, xw>>

CacheNext == CfSize \/ Tick \/ CloseRead \/ CloseWrite

SpecCache == SizeInit /\ [][CacheNext]_vars

(***************************************************************************)
(* A calling program that writes its data in blocks, flushes the handle    *)
(* in between as it likes, and closes it.                                  *)
(***************************************************************************)
WriteNext ==
    \/ OpenWrite
    \/ CfWrite
    \/ CfFlush
    \/ CfClose

SpecWrite == Init /\ [][WriteNext]_vars

(***************************************************************************)
(* Two threads that each open a file while pwlib_context is still NULL.    *)
(* The global is a plain void * without a lock: its loads and stores are   *)
(* steps of their own, and a thread that stored it hands talloc_zero       *)
(* either the value it stored or the value it loads again.                 *)
(***************************************************************************)
MaxOps == 2

Threads == {1, 2}

OpenCalls == {"cfopen", "cfdopen"}

\* a thread about to call fn: made is the context it created (0: none),
\* parent the context its handle hangs under, bufpos the handle's own state
\* and ops the number of operations its thread did on the handle
ThreadStart(fn) ==
    [pc |-> "test", fn |-> fn, made |-> 0, parent |-> 0, bufpos |-> 0, ops |-> 0]

ThreadsInit ==
    /\ OpenIdle
    /\ \E f1 \in OpenCalls : \E f2 \in OpenCalls :
          opn = [pc |-> "threads", pwlib_context |-> 0, contexts |-> 0,
                 th |-> <<ThreadStart(f1), ThreadStart(f2)>>]

\* if (!pwlib_context): the load of the global
ContextTest ==
    /\ opn.pc = "threads"
    /\ \E t \in Threads :
          /\ opn.th[t].pc = "test"
          /\ opn' = [opn EXCEPT !.th[t].pc =
                         IF opn.pwlib_context = 0 THEN "init" ELSE "alloc"]
    /\ UNCHANGED <<bufVars, hdVars, gl, fs, xw>>

\* talloc_init("PWLib Talloc context"): one more top-level context
TallocInit ==
    /\ opn.pc = "threads"
    /\ \E t \in Threads :
          /\ opn.th[t].pc = "init"
          /\ opn' = [opn EXCEPT !.contexts = @ + 1,
                                !.th[t].made = opn.contexts + 1,
                                !.th[t].pc = "store"]
    /\ UNCHANGED <<bufVars, hdVars, gl, fs, xw>>

\* pwlib_context = ...: the store to the global
ContextStore ==
    /\ opn.pc = "threads"
    /\ \E t \in Threads :
          /\ opn.th[t].pc = "store"
          /\ opn' = [opn EXCEPT !.pwlib_context = opn.th[t].made,
                                !.th[t].pc = "alloc"]
    /\ UNCHANGED <<bufVars, hdVars, gl, fs, xw>>

\* the values talloc_zero(pwlib_context, CFile) may be handed by thread t
ContextSeen(t) ==
    {opn.pwlib_context} \cup (IF opn.th[t].made = 0 THEN {} ELSE {opn.th[t].made})

\* talloc_zero(pwlib_context, CFile) and the rest of the open routine up to
\* finalise_open; the routine may fail and return NULL
HandleAlloc ==
    /\ opn.pc = "threads"
    /\ \E t \in Threads : \E ok \in BOOLEAN : \E p \in ContextSeen(t) :
          /\ opn.th[t].pc = "alloc"
          /\ opn' = [opn EXCEPT !.th[t].pc = IF ok THEN "open" ELSE "null",
                                !.th[t].parent = IF ok THEN p ELSE 0]
    /\ UNCHANGED <<bufVars, hdVars, gl, fs, xw>>

\* an operation of a thread on its own handle moves that handle's position
HandleOp ==
    /\ opn.pc = "threads"
    /\ \E t \in Threads :
          /\ opn.th[t].pc = "open"
          /\ opn.th[t].ops < MaxOps
          /\ opn' = [opn EXCEPT !.th[t].bufpos = @ + 1, !.th[t].ops = @ + 1]
    /\ UNCHANGED <<bufVars, hdVars, gl, fs, xw>>

ThreadsNext ==
    \/ ContextTest
    \/ TallocInit
    \/ ContextStore
    \/ HandleAlloc
    \/ HandleOp

SpecThreads == ThreadsInit /\ [][ThreadsNext]_vars

\* the bytes of the stream the callback has not handed over yet plus those
\* still unread in the buffer: what remains to be read
BufRemaining ==
    LET inbuf == IF bp.bufpos < bp.buflen
                 THEN [i \in 1..(bp.buflen - bp.bufpos) |-> bp.buffer[bp.bufpos + i]]
                 ELSE <<>>
    IN  inbuf \o SubSeq(refill.stream, refill.fed + 1, Len(refill.stream))

BufInit ==
    /\ bp = cfile_buffer_alloc(BufSize)
    /\ \E s \in Streams : \E c \in Chunkings(Len(s)) :
          refill = [kind |-> "chunks", stream |-> s, chunks |-> c, fed |-> 0]
    /\ \E cap \in 1..MaxCap : bcall = [cap |-> cap, results |-> <<>>]
    /\ hd = NoHandle
    /\ disk = <<>>
    /\ env = [files |-> 0, sess |-> 0, fcloses |-> 0, ends |-> 0, charSigned |-> TRUE]
    /\ usr = [backend |-> "none", D |-> <<>>, wpos |-> 0, dest |-> <<>>,
              phase |-> "none", lines |-> FALSE, reads |-> FALSE]
    /\ last = NoCall
    /\ gl = GlIdle
    /\ AuxIdle

BufGot(r) ==
    /\ bp' = r.st.bp
    /\ refill' = r.st.rf
    /\ bcall' = [bcall EXCEPT !.results =
           Append(@, [ret |-> r.ret, str |-> r.str, nul |-> r.nul,
                      before |-> BufRemaining])]

\* one call of buf_fgets with the caller's capacity
BufFgets ==
    /\ Len(bcall.results) < MaxCalls
    /\ BufGot(buf_fgets([bp |-> bp, rf |-> refill], bcall.cap))
    /\ UNCHANGED <<hdVars, gl, auxVars>>

BufNext == BufFgets

SpecBuf == BufInit /\ [][BufNext]_vars

\* what a variable that was never set can hold
JunkCounts == {0, 5}

BufDidRead(r, len) ==
    /\ bp' = r.st.bp
    /\ refill' = r.st.rf
    /\ bcall' = [bcall EXCEPT !.results =
           Append(@, [ret |-> r.ret, str |-> r.str, hang |-> r.hang, len |-> len,
                      before |-> BufRemaining])]

\* one call of buf_fread for the caller's count, by a caller that has not
\* been left waiting by an earlier call
BufFread ==
    /\ Len(bcall.results) < MaxReads
    /\ \A i \in 1..Len(bcall.results) : ~bcall.results[i].hang
    /\ \E len \in 1..bcall.cap : \E junk \in JunkCounts :
          BufDidRead(buf_fread([bp |-> bp, rf |-> refill], len, junk), len)
    /\ UNCHANGED <<hdVars, gl, auxVars>>

BufReadNext == BufFread

SpecBufRead == BufInit /\ [][BufReadNext]_vars

(***************************************************************************)
(* The growable line reader, cfgetline, on a handle opened for reading on  *)
(* a stored file.  One step is the entry of a call up to its first line    *)
(* read, or one turn of its while loop.                                    *)
(***************************************************************************)
GetlineBackends == {"plain", "gzip", "bzip2"}

\* the capacities a caller starts with: 0 for "not set"
GetlineCaps == 0..MaxCap

GetlineData == SeqsUpTo({97, NL, CR}, MaxFile)

\* the world of a handle just opened for reading on the file holding d
OpenedOn(b, d) ==
    backend_open(b, FALSE,
        [hd |-> NoHandle, disk |-> Header(b) \o Encode(b, d) \o Trailer(b),
         env |-> [files |-> 0, sess |-> 0, fcloses |-> 0, ends |-> 0,
                  charSigned |-> TRUE]])

GlInitWorld(w, d) ==
    /\ hd = w.hd /\ disk = w.disk /\ env = w.env
    /\ usr = [backend |-> w.hd.backend, D |-> d, wpos |-> Len(d), dest |-> <<>>,
              phase |-> "getline", lines |-> FALSE, reads |-> FALSE]

GlInit ==
    /\ BufIdle
    /\ AuxIdle
    /\ last = NoCall
    /\ \E b \in GetlineBackends : \E d \in GetlineData : \E cap \in GetlineCaps :
          /\ GlInitWorld(OpenedOn(b, d), d)
          /\ gl = [pc |-> "idle", D |-> d, cap0 |-> cap, maxline |-> cap,
                   line |-> <<>>, len |-> 0, lines |-> <<>>,
                   off |-> 0, req |-> 0, under |-> FALSE]

\* isafullline(line, len): the byte at line[len-1] is '\n' or '\r'; with
\* len 0 that byte lies before the array, and oob says what is found there
isafullline(line, len, oob) ==
    IF len = 0 THEN oob ELSE line[len] = NL \/ line[len] = CR

\* cfgetline returns: the pointer handed back and the line it holds.  off
\* and req are the offset in the array and the capacity of the last line
\* read made, under whether a byte outside the array was read.
GlReturn(ret, line, maxline, off, req, under) ==
    gl' = [gl EXCEPT !.pc = "idle", !.maxline = maxline, !.line = <<>>, !.len = 0,
                     !.off = off, !.req = req, !.under = under,
                     !.lines = Append(@, [ret |-> ret, str |-> line])]

\* if (!cfgets(fp, line, *maxline)) return NULL; len = strlen(line)
GlFirst(r, maxline) ==
    /\ SetWorld(r.w)
    /\ IF r.ret = "null" THEN GlReturn("null", <<>>, maxline, 0, maxline, gl.under)
       ELSE gl' = [gl EXCEPT !.pc = "loop", !.maxline = maxline,
                             !.line = r.str, !.len = Len(r.str),
                             !.off = 0, !.req = maxline]

\* the entry of cfgetline: a zero maxline becomes 80, then the first line
\* read into the array
GlCall ==
    /\ gl.pc = "idle"
    /\ Len(gl.lines) < MaxCalls
    /\ \A i \in 1..Len(gl.lines) : gl.lines[i].ret # "null"
    /\ GlFirst(cfgets(World, IF gl.maxline = 0 THEN DefaultMaxline ELSE gl.maxline),
               IF gl.maxline = 0 THEN DefaultMaxline ELSE gl.maxline)
    /\ UNCHANGED <<bufVars, usr, last, auxVars>>

\* the body of the loop: cfgets(fp, line + len, extend) after the array
\* grew by extend
GlMore(r, extend, under) ==
    /\ SetWorld(r.w)
    /\ IF r.ret = "null"
       THEN IF gl.len = 0
            THEN GlReturn("null", <<>>, gl.maxline + extend, gl.len, extend, under)
            ELSE GlReturn("str", gl.line, gl.maxline + extend, gl.len, extend, under)
       ELSE gl' = [gl EXCEPT !.maxline = @ + extend, !.line = @ \o r.str,
                             !.len = @ + Len(r.str),
                             !.off = gl.len, !.req = extend, !.under = under]

\* the test reads line[len - 1] when the end of the file is not reported:
\* with the unsigned len 0 that is a byte outside the array (line[-1]
\* where unsigned and pointers have one width, line[2^32 - 1] otherwise)
GlUnder == gl.under \/ (gl.len = 0 /\ ~cfeof(World))

\* one test of while (!cfeof(fp) && !isafullline(line, len)) and, if it
\* holds, one turn of the loop with extend = len / 2
GlLoop ==
    /\ gl.pc = "loop"
    /\ \E oob \in (IF gl.len = 0 THEN BOOLEAN ELSE {FALSE}) :
          IF cfeof(World) \/ isafullline(gl.line, gl.len, oob)
          THEN GlReturn("str", gl.line, gl.maxline, gl.off, gl.req, GlUnder)
               /\ UNCHANGED <<hd, disk, env>>
          ELSE /\ gl.maxline + (gl.len \div 2) <= (IF gl.cap0 = 0 THEN DefaultMaxline ELSE gl.cap0) + MaxGrow
               /\ GlMore(cfgets(World, gl.len \div 2), gl.len \div 2, GlUnder)
    /\ UNCHANGED <<bufVars, usr, last, auxVars>>

GlNext ==
    \/ GlCall
    \/ GlLoop

SpecGetline == GlInit /\ [][GlNext]_vars

(***************************************************************************)
(* A calling program that reads lines from a bzip2 file it did not write:  *)
(* the file is whole or was cut short before its end-of-stream mark.       *)
(***************************************************************************)
\* what memory that was never written can hold
JunkBytes == {97, NL, 255}

\* the world with the bytes of the buffer that were never written read as
\* junk
Resolve(w, junk) ==
    [w EXCEPT !.hd.buf.buffer = [i \in DOMAIN @ |-> IF @[i] = Uninit THEN junk ELSE @[i]]]

BzInit ==
    /\ BufIdle
    /\ AuxIdle
    /\ gl = GlIdle
    /\ last = NoCall
    /\ \E d \in SeqsUpTo({97, NL}, BufSize + 1) : \E cut \in BOOLEAN :
          /\ hd = OpenedOn("bzip2", d).hd
          /\ env = OpenedOn("bzip2", d).env
          /\ disk = Header("bzip2") \o Encode("bzip2", d)
                    \o (IF cut THEN <<>> ELSE Trailer("bzip2"))
          /\ usr = [backend |-> "bzip2", D |-> d, wpos |-> Len(d), dest |-> <<>>,
                    phase |-> "bzread", lines |-> FALSE, reads |-> FALSE]

\* the call made: a call that took a byte from beyond the array has no
\* defined outcome
BzGot(r, cap) ==
    IF r.w.hd.buf.bufpos > r.w.hd.buf.bufsize
    THEN /\ usr' = [usr EXCEPT !.phase = "undefined"]
         /\ last' = [NoCall EXCEPT !.op = "cfgets", !.pret = "crash", !.cap = cap]
         /\ UNCHANGED <<hd, disk, env>>
    ELSE /\ SetWorld(r.w)
         /\ usr' = [usr EXCEPT !.lines = TRUE, !.dest = @ \o r.str]
         /\ last' = [NoCall EXCEPT !.op = "cfgets", !.pret = r.ret, !.cap = cap,
                                   !.str = r.str, !.nul = r.nul]

\* cfgets(fp, str, cap) on the bzip2 handle
BzGets ==
    /\ usr.phase = "bzread"
    /\ \E cap \in 1..MaxCap : \E junk \in JunkBytes :
          BzGot(cfgets(Resolve(World, junk), cap), cap)
    /\ UNCHANGED <<bufVars, gl, auxVars>>

\* cfeof(fp) on the bzip2 handle
BzEof ==
    /\ usr.phase = "bzread"
    /\ last' = [NoCall EXCEPT !.op = "cfeof", !.ret = IF cfeof(World) THEN 1 ELSE 0]
    /\ UNCHANGED <<hd, disk, env, usr>>
    /\ UNCHANGED <<bufVars, gl, auxVars>>

\* cfread(fp, ptr, size, num) on the bzip2 handle
BzRead ==
    /\ usr.phase = "bzread"
    /\ \E size \in 1..MaxSize : \E num \in Counts :
          /\ SetWorld(cfread(World, size, num, TRUE).w)
          /\ usr' = [usr EXCEPT !.reads = TRUE,
                                !.dest = @ \o cfread(World, size, num, TRUE).stored]
          /\ last' = [NoCall EXCEPT !.op = "cfread", !.size = size, !.num = num,
                                    !.ret = cfread(World, size, num, TRUE).ret,
                                    !.str = cfread(World, size, num, TRUE).stored]
    /\ UNCHANGED <<bufVars, gl, auxVars>>

BzNext == BzGets \/ BzRead \/ BzEof

SpecBz == BzInit /\ [][BzNext]_vars

(***************************************************************************)
(* Properties of the generic buffer's line read.                           *)
(***************************************************************************)

\* the first line of at most n bytes of s: up to and including its first
\* line-end byte
RECURSIVE FirstLine(_, _)
FirstLine(s, n) ==
    IF n = 0 \/ s = <<>> THEN <<>>
    ELSE IF Head(s) = NL THEN <<NL>>
    ELSE <<Head(s)>> \o FirstLine(Tail(s), n - 1)

\* the stream cut into the pieces a line read of capacity cap delivers
RECURSIVE LineSplit(_, _)
LineSplit(s, cap) ==
    IF s = <<>> THEN <<>>
    ELSE LET l == FirstLine(s, cap - 1)
         IN  <<l>> \o LineSplit(SubSeq(s, Len(l) + 1, Len(s)), cap)

\* the strings returned so far by the calls on the buffer
BufStrings ==
    LET rs == SelectSeq(bcall.results, LAMBDA r : r.ret = "str")
    IN  [i \in 1..Len(rs) |-> rs[i].str]

\* C5: with a capacity of at least 2, the strings buf_fgets returns do not
\* depend on how the callback chunks the stream: call i returns piece i of
\* the stream cut at line ends and at cap-1 bytes, every call after the
\* last piece returns NULL, and once NULL has been returned the returned
\* strings concatenated are the stream.
C5_ChunkingIndependent ==
    bcall.cap >= 2 =>
        LET ref == LineSplit(refill.stream, bcall.cap)
        IN  /\ \A i \in 1..Len(bcall.results) :
                  IF i <= Len(ref)
                  THEN bcall.results[i].ret = "str" /\ bcall.results[i].str = ref[i]
                  ELSE bcall.results[i].ret = "null"
            /\ (\E i \in 1..Len(bcall.results) : bcall.results[i].ret = "null")
                  => Concat(BufStrings) = refill.stream

\* the example "ab\ncd" read with a capacity of 4 has returned "ab\n", "cd"
\* and then NULL, the stream having come in more than one refill
C5_Witness ==
    /\ refill.stream = ExampleStream
    /\ bcall.cap = 4
    /\ Len(bcall.results) = 3
    /\ bcall.results[1].str = <<97, 97, NL>> /\ bcall.results[1].ret = "str"
    /\ bcall.results[2].str = <<97, 97>> /\ bcall.results[2].ret = "str"
    /\ bcall.results[3].ret = "null"
    /\ refill.fed = Len(ExampleStream)

\* C2: whatever capacity the caller starts with, the calls of cfgetline
\* return the lines of the file, each ending with its '\n' (the last one
\* possibly without), in order, and NULL only after the last of them.
C2_GetlineSplits ==
    LET ref == LineSplit(gl.D, Len(gl.D) + 2)
    IN  \A i \in 1..Len(gl.lines) :
            IF i <= Len(ref)
            THEN gl.lines[i].ret = "str" /\ gl.lines[i].str = ref[i]
            ELSE gl.lines[i].ret = "null"

(***************************************************************************)
(* Properties of the handle: round trip, line reads, end of stream, close, *)
(* NULL handles and item counts.                                           *)
(***************************************************************************)

\* the last call was made on the handle, not on NULL
OnHandle(op) == last.op = op /\ ~last.null

\* C1: data written through a backend and read back through the same
\* backend by block reads alone is delivered into the destination memory
\* unchanged by the time a read returns a short count.
C1_RoundTrip ==
    (usr.phase = "reading" /\ OnHandle("cfread") /\ ~usr.lines
        /\ last.ret < last.num)
    => usr.dest = usr.D

C4_NullIffNothingLeft ==
    (OnHandle("cfgets") /\ hd.backend \in {"bzip2", "xz", "lzo"})
    => (last.pret = "null" <=> last.before = <<>>)

\* C6: eof is reported true only after a read or line read was made on
\* the handle; in particular not directly after the open for reading.
C6_EofOnlyAfterRead ==
    (OnHandle("cfeof") /\ last.ret = 1) => (usr.reads \/ usr.lines)

\* C7: when close has returned, the OS file of the handle has been closed,
\* once, and its codec session ended, once.
C7_CloseReleasesOnce ==
    OnHandle("cfclose") =>
        /\ env.files = 0 /\ env.fcloses = 1
        /\ env.sess = 0
        /\ Framed(usr.backend) => env.ends = 1

\* C8: close returns non-zero when the finalize step failed, and 0 only
\* when nothing failed.
C8_CloseReportsFailure ==
    OnHandle("cfclose") =>
        /\ last.fail = "finalize" => last.ret # 0
        /\ last.ret = 0 => last.fail = "none"

\* C9: a step that calls an entry point with NULL changes nothing of the
\* handle, the file, the OS resources or the caller's data, never gets as
\* far as using the pointer, and returns 0 (NULL from cfgets).
C9_NullHandleNoEffect ==
    [][last'.null =>
          /\ UNCHANGED <<hd, disk, env, usr>>
          /\ last'.ret = 0
          /\ last'.pret = (IF last'.op = "cfgets" THEN "null" ELSE "none")]_vars

\* cfclose(NULL) has returned 0 while a handle was open
C9_Witness ==
    /\ last.op = "cfclose" /\ last.null /\ last.ret = 0
    /\ hd.open /\ usr.phase = "writing" /\ usr.wpos > 0

\* C10: block reads and writes return a number of whole items: never more
\* than the item count asked for, a read no more items than the bytes it
\* stored make up, a write that took all the bytes the item count.
C10_ItemCount ==
    /\ OnHandle("cfread") =>
          last.ret <= last.num /\ last.ret * last.size <= Len(last.str)
    /\ OnHandle("cfwrite") => last.ret = last.num

\* C11: cfprintf and cvfprintf return the number of bytes of the output on
\* success and a negative value on every failure: a NULL handle, or the
\* backend's write reporting an error.
C11_PrintfNegativeOnFailure ==
    last.op \in {"cfprintf", "cvfprintf"} =>
        IF last.null \/ last.fail # "none"
        THEN last.ret < 0
        ELSE last.ret = Len(last.str)

\* C12: cfflush on a handle opened for writing returns 0 when the flush
\* succeeded; a result other than 0 is returned only when it failed.
C12_FlushZeroOnSuccess ==
    (OnHandle("cfflush") /\ hd.writing) => (last.fail = "none" => last.ret = 0)

\* the name ends in the extension
EndsWith(name, ext) ==
    Len(name) >= Len(ext) /\ SubSeq(name, Len(name) - Len(ext) + 1, Len(name)) = ext

\* C13: when the name is not "-" and the content is not looked at, cfopen
\* selects the backend by the end of the name alone: gzip for ".gz", bzip2
\* for ".bz2", plain for everything else.
C13_TrailingExtension ==
    (opn.pc = "done" /\ opn.routine = "cfopen" /\ opn.name # <<"-">>
        /\ opn.sniff = "none" /\ opn.step # "alloc")
    => opn.res.type = (IF EndsWith(opn.name, <<".", "b", "z", "2">>) THEN "bzip2"
                       ELSE IF EndsWith(opn.name, <<".", "g", "z">>) THEN "gzip"
                       ELSE "plain")

\* C14: an open routine that returns NULL leaves no OS file, no codec
\* session and no handle memory behind, and one that returns a handle
\* returns it with its file opened and its buffer allocated.
C14_OpenUnwinds ==
    opn.pc = "done" =>
        IF opn.res.ret = "NULL"
        THEN opn.res.files = 0 /\ opn.res.sess = 0 /\ opn.res.mem = 0
        ELSE opn.res.fileok /\ opn.res.bufok

\* C15: size() never returns a negative value, and when it answers from
\* the Size-Cache record the value is the 64-bit count recorded there.
C15_SizeNotNegative ==
    fs.pc = "file" /\ fs.cur.made =>
        /\ fs.cur.ret >= 0
        /\ fs.cur.hit => fs.cur.ret = fs.cur.rec

\* C16: on a filesystem that takes the attribute, the second of two
\* successive size() calls on a bzip2 file not modified in between returns
\* what the first returned and does not run the decode pipeline.
C16_SecondCallHitsCache ==
    (fs.pc = "file" /\ fs.kind = "bzip2" /\ fs.xattrOK /\ fs.prev.made
        /\ fs.cur.made /\ fs.prev.epoch = fs.cur.epoch)
    => fs.cur.ret = fs.prev.ret /\ ~fs.cur.ran

\* C17: size() answers from the Size-Cache record only when the record's
\* time stamp is strictly newer than the file's modification time.
C17_CacheOnlyIfNewer ==
    (fs.pc = "file" /\ fs.kind = "bzip2" /\ fs.cur.made /\ fs.cur.hit)
    => fs.cur.stamp > fs.cur.mtime

\* C18: the size of an xz file made of two streams as the encoder wrote
\* them, with any number of zero words of padding after each, is the sum
\* of the two uncompressed sizes, and no word of a block is read for it.
C18_TwoStreamsSum ==
    (xw.pc = "done" /\ xw.front = <<>> /\ xw.a.kind = "good"
       /\ xw.b.kind = "good" /\ xw.faults = 0)
    => /\ ~xw.crash
       /\ xw.ret = xw.a.u + xw.b.u
       /\ "B" \notin xw.touched

C18_Witness ==
    /\ xw.pc = "done" /\ xw.front = <<>> /\ xw.faults = 0
    /\ xw.a = [kind |-> "good", u |-> 1] /\ xw.b = [kind |-> "good", u |-> 2]
    /\ xw.pad1 = 2 /\ xw.pad2 = 1
    /\ xw.streams = 2 /\ xw.ret = 3

\* C19: when the walk over an xz file is given up at any step, the size
\* returned is 0, also when streams nearer the end were already decoded.
C19_AbortReturnsZero ==
    (xw.pc = "done" /\ xw.abort # "none") => (~xw.crash /\ xw.ret = 0)

\* C20: the read buffer of an open handle always has
\* 0 <= bufpos <= buflen <= bufsize, also right after a refill that found
\* the end of the stream or an error of the codec.
C20_BufferInvariant ==
    /\ (hd.open /\ hd.backend = "bzip2" /\ hd.bufalloc)
       => (0 <= hd.buf.bufpos /\ hd.buf.bufpos <= hd.buf.buflen
           /\ hd.buf.buflen <= hd.buf.bufsize)
    /\ bp.bufsize > 0
       => (0 <= bp.bufpos /\ bp.bufpos <= bp.buflen /\ bp.buflen <= bp.bufsize)

\* C21: a call of buf_fread with len >= 1 returns, also when more of the
\* stream is left after len bytes; it returns the number of bytes it
\* copied, and these are the next min(len, bytes remaining) bytes of the
\* stream.
C21_FreadReturnsCount ==
    \A i \in 1..Len(bcall.results) :
        LET r == bcall.results[i]
        IN  /\ ~r.hang
            /\ r.ret = Len(r.str)
            /\ r.str = SubSeq(r.before, 1, Min(r.len, Len(r.before)))

\* C22: a line read on a bzip2 handle with room for at least one byte,
\* made while bytes of the stream remain, returns the array holding the
\* next bytes up to the first line end or up to cap-1 bytes, whatever the
\* values of the bytes: no byte value is taken for the end of the stream.
C22_NoByteIsEof ==
    (OnHandle("cfgets") /\ hd.backend = "bzip2" /\ last.cap >= 2
       /\ last.before # <<>>)
    => (last.pret = "str" /\ last.str = FirstLine(last.before, last.cap - 1))

\* C23: a stream whose header flags differ from its footer flags stops the
\* walk over an xz file, and its index is not merged: only the streams
\* behind it have been counted.
C23_FlagsCompared ==
    /\ (xw.pc \in {"walk", "end", "done"} /\ xw.b.kind = "flags")
       => xw.streams = 0
    /\ (xw.pc \in {"walk", "end", "done"} /\ xw.a.kind = "flags")
       => xw.streams <= 1

\* C24: on a file shorter than a header and a footer xz_size returns 0,
\* and after it has freed its buffer and closed its file it uses neither.
C24_ShortFileReturnsZero ==
    (xw.pc = "done" /\ Len(xw.file) < 2 * HeaderWords)
    => (~xw.undef /\ ~xw.crash /\ xw.ret = 0)

\* C25: the walk over an xz file ends on every file, also on one that is
\* zero from its start, and its position never goes below 0.
C25_WalkEnds ==
    xw.pc \in {"walk", "end", "done", "hung"} => (xw.pc # "hung" /\ xw.pos >= 0)

\* C26: whatever handles on a bzip2 file were opened, asked for the size,
\* read, written and closed, a stored size record that passes the test of
\* its time stamp holds the true uncompressed size of the file.
C26_CacheHoldsTrueSize ==
    (fs.pc = "file" /\ fs.kind = "bzip2" /\ fs.attr.present
       /\ StampValid(fs.impl, fs.mtime, fs.attr.stamp))
    => fs.attr.size = fs.real

\* C27: on a bzip2 handle read by line reads and block reads in any order
\* the bytes delivered, in the order of the calls, are the first bytes of
\* the decoded stream: a block read made after a line read goes on behind
\* the last byte the line read returned and skips nothing that the line
\* buffer still holds.
C27_ReadContinuesAfterGets ==
    (usr.phase = "bzread" /\ ~CutShort(World))
    => /\ Len(usr.dest) <= Len(usr.D)
       /\ usr.dest = SubSeq(usr.D, 1, Len(usr.dest))

\* C28: when a written xz handle has been closed without a failure, after
\* any writes and flushes, the file holds the output of the encoder for
\* the data written: each of its bytes once, in order, and nothing else.
C28_XzFileIsEncoderOutput ==
    (OnHandle("cfclose") /\ usr.backend = "xz" /\ usr.phase = "written")
    => disk = Header("xz") \o Encode("xz", usr.D) \o Trailer("xz")

\* C29: every line read cfgetline makes has its offset in the array plus
\* its capacity within the size the array has then, the line handed back
\* fits the array with its NUL, and no byte outside the array is read.
C29_GetlineInBounds ==
    gl.pc \in {"idle", "loop"}
    => /\ gl.off + gl.req <= gl.maxline
       /\ ~gl.under
       /\ (gl.pc = "idle" /\ gl.lines # <<>> /\ gl.lines[Len(gl.lines)].ret = "str")
          => Len(gl.lines[Len(gl.lines)].str) + 1 <= gl.maxline
       /\ gl.pc = "loop" => gl.len + 1 <= gl.maxline

\* C30: when both threads have opened their file while the global context
\* was unset at the start, one context was created, both handles hang
\* under the context pwlib_context refers to, and each handle's state is
\* what its own thread's operations made it.
C30_OneContextOwnsBoth ==
    (opn.pc = "threads" /\ \A t \in Threads : opn.th[t].pc = "open")
    => /\ opn.contexts = 1
       /\ \A t \in Threads : opn.th[t].parent = opn.pwlib_context
       /\ \A t \in Threads : opn.th[t].bufpos = opn.th[t].ops

====
